---------------------------- MODULE Spec2Model ----------------------------
(***************************************************************************)
(* Model of the hardware telemetry and control subsystem of               *)
(* OpenSystemMonitor (src/main.py): the ATK ACPI device channel, the      *)
(* packet codec, the mode cache with its persisted file, and the request  *)
(* handlers that drive them on the server's event loop.                   *)
(*                                                                         *)
(* Python values are tagged records: None, IntV(n), StrV(s).       *)
(* A Python string is a sequence of one-character strings.                *)
(***************************************************************************)
EXTENDS Integers, Sequences, FiniteSets, TLC

(***************************************************************************)
(* Bounds of the model.                                                    *)
(***************************************************************************)
\* number of clients that may have a request in flight at the same time
NumClients == 2
\* half-width of the windows of raw driver replies around 0 and around 65536
RawWindow == 3
\* number of handle values the operating system hands out
MaxHandles == 2

(***************************************************************************)
(* Python values.                                                          *)
(***************************************************************************)
None == [t |-> "none"]
IntV(n) == [t |-> "int", n |-> n]
StrV(s) == [t |-> "str", s |-> s]
BoolV(b) == [t |-> "bool", b |-> b]
IsNone(x) == x.t = "none"

(***************************************************************************)
(* String literals of the program and of the requests.                    *)
(***************************************************************************)
s_balanced == <<"b","a","l","a","n","c","e","d">>
s_turbo == <<"t","u","r","b","o">>
s_silent == <<"s","i","l","e","n","t">>
s_performance == <<"p","e","r","f","o","r","m","a","n","c","e">>
s_Balanced == <<"B","a","l","a","n","c","e","d">>
s_Turbo == <<"T","u","r","b","o">>
s_Silent == <<"S","i","l","e","n","t">>
s_Performance == <<"P","e","r","f","o","r","m","a","n","c","e">>
s_Manual == <<"M","a","n","u","a","l">>
s_eco == <<"e","c","o">>
s_standard == <<"s","t","a","n","d","a","r","d">>
s_Eco == <<"E","c","o">>
s_Standard == <<"S","t","a","n","d","a","r","d">>
s_Ultimate == <<"U","l","t","i","m","a","t","e">>
s_cpu_mode == <<"c","p","u","_","m","o","d","e">>
s_gpu_mode == <<"g","p","u","_","m","o","d","e">>
\* names a client may send that the program has no literal for
s_TURBO == <<"T","U","R","B","O">>
s_PERFORMANCE == <<"P","E","R","F","O","R","M","A","N","C","E">>
s_invalid == <<"i","n","v","a","l","i","d">>
s_ECO == <<"E","C","O">>
s_ultimate == <<"u","l","t","i","m","a","t","e">>
s_ULTIMATE == <<"U","L","T","I","M","A","T","E">>
s_bogus == <<"b","o","g","u","s">>

\* str.lower() on ASCII text: every upper-case letter maps to its lower-case one
UpperCase == <<"A","B","C","D","E","F","G","H","I","J","K","L","M",
               "N","O","P","Q","R","S","T","U","V","W","X","Y","Z">>
LowerCase == <<"a","b","c","d","e","f","g","h","i","j","k","l","m",
               "n","o","p","q","r","s","t","u","v","w","x","y","z">>
LowerChar(c) ==
    IF \E i \in 1..26 : UpperCase[i] = c
    THEN LowerCase[CHOOSE i \in 1..26 : UpperCase[i] = c]
    ELSE c
lower(s) == [i \in 1..Len(s) |-> LowerChar(s[i])]

\* dict.get(key) and dict.get(key, default) on a dict modelled as a function
DictGet(d, k, default) == IF k \in DOMAIN d THEN d[k] ELSE default

(***************************************************************************)
(* ATK ACPI driver constants (src/main.py:88-96).                          *)
(***************************************************************************)
DSTS == 1398035268
DEVS == 1398162756
ATK_CPU_FAN_ID == 1114131
ATK_GPU_FAN_ID == 1114132
FAN_MAX_RPM == 6600
ATK_CPU_MODE_ID == 1179765
ATK_GPU_ECO_ID == 589856
ATK_GPU_MUX_ID == 589846
\* the bias the driver adds to a value it reports
ATK_BIAS == 65536
\* the payload length every command declares
ARG_LEN == 8
\* size of the reply buffer
OUT_LEN == 16

CPU_MODE_MAP ==
    (0 :> s_Balanced) @@ (1 :> s_Turbo) @@ (2 :> s_Silent)
    @@ (3 :> s_Performance) @@ (4 :> s_Manual)
CPU_MODE_WRITE_MAP ==
    (s_balanced :> 0) @@ (s_turbo :> 1) @@ (s_silent :> 2) @@ (s_performance :> 3)
\* the dict literal of _set_cpu_mode that names the cached mode
CPU_MODE_NAMES ==
    (s_balanced :> s_Balanced) @@ (s_turbo :> s_Turbo)
    @@ (s_silent :> s_Silent) @@ (s_performance :> s_Performance)
\* the dict literal of _set_gpu_mode that names the cached mode
GPU_MODE_NAMES == (s_eco :> s_Eco) @@ (s_standard :> s_Standard)

(***************************************************************************)
(* Packet codec: struct.pack("<IIII", ...) and struct.unpack_from("<i").   *)
(***************************************************************************)
\* variant: the four bytes most significant first (struct format ">IIII")
PackU32_big_endian(w) ==
    << (w \div 16777216) % 256, (w \div 65536) % 256, (w \div 256) % 256, w % 256 >>
\* the four bytes of an unsigned 32-bit word, least significant first
PackU32(w) == << w % 256, (w \div 256) % 256, (w \div 65536) % 256, (w \div 16777216) % 256 >>
Pack_IIII(a, b, c, d) == PackU32(a) \o PackU32(b) \o PackU32(c) \o PackU32(d)
\* the signed 32-bit little-endian integer at a 0-based offset of a buffer
Unpack_i32(buf, off) ==
    LET b0 == buf[off + 1]
        b1 == buf[off + 2]
        b2 == buf[off + 3]
        b3 == buf[off + 4]
        hi == IF b3 >= 128 THEN b3 - 256 ELSE b3
    IN  b0 + 256 * b1 + 65536 * b2 + 16777216 * hi
\* the unsigned 32-bit little-endian word at a 0-based offset; used on commands,
\* whose words are all below 2^31
Unpack_u32(buf, off) ==
    buf[off + 1] + 256 * buf[off + 2] + 65536 * buf[off + 3] + 16777216 * buf[off + 4]

atk_read_fan_in_buf(device_id) == Pack_IIII(DSTS, ARG_LEN, device_id, 0)
atk_read_device_in_buf(device_id) == Pack_IIII(DSTS, ARG_LEN, device_id, 0)
atk_write_device_in_buf(device_id, value) == Pack_IIII(DEVS, ARG_LEN, device_id, value)

\* a fan read that decodes as the register read does, without the wrap
atk_read_fan_val_plain(raw) == raw - ATK_BIAS
\* _atk_read_fan, lines 143-150: the value decoded from the reply
atk_read_fan_val(raw) ==
    LET val == raw - ATK_BIAS
    IN  IF val < 0 THEN val + ATK_BIAS ELSE val
\* _atk_read_fan, lines 148-150: RPM, or None outside 1..100
atk_read_fan_rpm(raw) ==
    LET val == atk_read_fan_val(raw)
    IN  IF val <= 0 \/ val > 100 THEN None ELSE IntV(val * 100)
\* variant: the register read wraps a negative difference as the fan read does
atk_read_device_val_wrapped(raw) ==
    LET val == raw - ATK_BIAS
    IN  IF val < 0 THEN val + ATK_BIAS ELSE val
\* _atk_read_device, lines 182-183
atk_read_device_val(raw) == raw - ATK_BIAS

(***************************************************************************)
(* The persisted file mode_cache.json: json.load and json.dump.           *)
(* A file is missing, holds text that is no JSON document, or holds a     *)
(* JSON value: null, a string, a number, an array or an object.           *)
(***************************************************************************)
FileMissing == [kind |-> "missing"]
FileGarbage == [kind |-> "garbage"]
FileJson(v) == [kind |-> "json", val |-> v]
JNull == [j |-> "null"]
JStr(s) == [j |-> "string", s |-> s]
JNum(n) == [j |-> "number", n |-> n]
JArr == [j |-> "array"]
JObj(m) == [j |-> "object", m |-> m]

\* json.dump of a value the program writes: None or a str
json_dump_value(v) ==
    CASE v.t = "none" -> JNull
      [] v.t = "str" -> JStr(v.s)
      [] v.t = "int" -> JNum(v.n)
\* json.load of a member of an object
json_load_value(jv) ==
    CASE jv.j = "null" -> None
      [] jv.j = "string" -> StrV(jv.s)
      [] jv.j = "number" -> IntV(jv.n)
      [] jv.j = "array" -> [t |-> "list"]
      [] jv.j = "object" -> [t |-> "dict"]
\* variant: the record is written with the CPU mode alone
save_mode_cache_text_cpu_only(cpu_mode, gpu_mode) ==
    FileJson(JObj(s_cpu_mode :> json_dump_value(cpu_mode)))

\* json.dump({"cpu_mode": cpu_mode, "gpu_mode": gpu_mode}, f), lines 238-239
save_mode_cache_text(cpu_mode, gpu_mode) ==
    FileJson(JObj((s_cpu_mode :> json_dump_value(cpu_mode))
                  @@ (s_gpu_mode :> json_dump_value(gpu_mode))))
\* lines 228-230 raise (and line 231 catches) unless the file holds a JSON object
load_mode_cache_raises(f) == f.kind # "json" \/ f.val.j # "object"
\* data.get("cpu_mode"), data.get("gpu_mode"), line 230
load_mode_cache_pair(f) ==
    << IF s_cpu_mode \in DOMAIN f.val.m THEN json_load_value(f.val.m[s_cpu_mode]) ELSE None,
       IF s_gpu_mode \in DOMAIN f.val.m THEN json_load_value(f.val.m[s_gpu_mode]) ELSE None >>

\* a record that some other program, or an editor, left in the file: JSON
\* object, string values, but no mode names
FileForeign == FileJson(JObj((s_cpu_mode :> JStr(s_invalid)) @@ (s_gpu_mode :> JStr(s_bogus))))
\* what the file may hold when the process first starts
InitialFiles ==
    { FileMissing, FileGarbage, FileJson(JArr), FileJson(JObj(<<>>)),
      save_mode_cache_text(StrV(s_Turbo), None),
      FileJson(JObj(s_gpu_mode :> JStr(s_Eco))),
      FileForeign }

(***************************************************************************)
(* Inputs: the names a client may send, and the replies of the driver.    *)
(***************************************************************************)
\* a request field that was not sent (Python None)
Absent == << "None" >>
CpuNames == { s_turbo, s_TURBO, s_Silent, s_balanced, s_PERFORMANCE, s_Manual, s_invalid }
GpuNames == { s_eco, s_ECO, s_Standard, s_ultimate, s_ULTIMATE, s_bogus }
\* the signed 32-bit value at offset 0 of a reply. The CPU-mode register is read
\* with windows around 0 and around the bias, the top of the 17-bit range and
\* values far outside it
RawReplies ==
    (-RawWindow .. RawWindow)
    \cup ((ATK_BIAS - RawWindow) .. (ATK_BIAS + RawWindow))
    \cup { ATK_BIAS + 4, ATK_BIAS + 5, 2 * ATK_BIAS - 1, 2 * ATK_BIAS,
           2147483647, ATK_BIAS - 2147483647 }
\* a fan register: an empty reply, counts just under and over the bias, and
\* counts of 0, 3, 4, 33, 100 and 101 hundreds of RPM
FanReplies ==
    { 0, ATK_BIAS - 3, ATK_BIAS, ATK_BIAS + 3, ATK_BIAS + 4, ATK_BIAS + 33, ATK_BIAS + 100,
      ATK_BIAS + 101 }
\* a flag register: clear, set, and an unsupported register
FlagReplies == { ATK_BIAS, ATK_BIAS + 1, 0 }
Replies(device_id) ==
    CASE device_id \in {ATK_CPU_FAN_ID, ATK_GPU_FAN_ID} -> FanReplies
      [] device_id \in {ATK_GPU_ECO_ID, ATK_GPU_MUX_ID} -> FlagReplies
      [] OTHER -> RawReplies
\* the reply buffer the driver fills for a raw value: 16 bytes, the value at offset 0
OutBuf(raw) ==
    LET u == IF raw < 0 THEN raw + 2147483647 + 1 ELSE raw
        top == (u \div 16777216) + (IF raw < 0 THEN 128 ELSE 0)
    IN  << u % 256, (u \div 256) % 256, (u \div 65536) % 256, top >>
        \o [i \in 1..(OUT_LEN - 4) |-> 0]

(***************************************************************************)
(* The sensors outside the driver: the LibreHardwareMonitor computer, the  *)
(* NVML library, psutil.  A sensor value is a number of hundredths.        *)
(***************************************************************************)
\* a LibreHardwareMonitor sensor: str(SensorType), str(Name), Value (None: no reading)
Sensor(stype, sname, val) == [stype |-> stype, sname |-> sname, val |-> val]
\* a sensor.Value that float() cannot convert (line 439 raises)
BadValue == [t |-> "object"]
\* a hardware node: str(HardwareType), Sensors, the Sensors of each SubHardware,
\* and where a traversal of it raises ("none": nowhere; "update": hw.Update();
\* "sensors": hw.Sensors; "sub": hw.SubHardware)
Hardware(htype, sensors, sub, fault) ==
    [htype |-> htype, sensors |-> sensors, sub |-> sub, fault |-> fault]
CpuNodeA ==
    Hardware("Cpu",
             << Sensor("Load", "CPU Total", IntV(1250)),
                Sensor("Temperature", "CPU Package", IntV(6180)),
                Sensor("Temperature", "Core Average", IntV(5525)),
                Sensor("Temperature", "Core Max", IntV(7075)),
                Sensor("Temperature", "Core Max", None),
                Sensor("Fan", "Fan #1", IntV(240000)) >>,
             << << Sensor("Fan", "Fan #2", IntV(310000)) >> >>, "none")
\* a CPU that reports its fan on a sub-node only, and two package readings
CpuNodeB ==
    Hardware("Cpu",
             << Sensor("Temperature", "CPU Package", IntV(4000)),
                Sensor("Temperature", "CPU Package", IntV(4205)) >>,
             << << Sensor("Temperature", "Die", IntV(3900)),
                   Sensor("Fan", "Fan #2", IntV(310000)) >> >>, "none")
BoardNode ==
    Hardware("Motherboard", << Sensor("Fan", "Fan #1", IntV(120000)) >>, << >>, "none")
\* an integrated GPU without a core temperature or a fan
GpuNodeIntel ==
    Hardware("GpuIntel",
             << Sensor("Temperature", "GPU Hot Spot", IntV(5000)),
                Sensor("Load", "D3D 3D", IntV(300)) >>, << >>, "none")
GpuNodeNvidia ==
    Hardware("GpuNvidia",
             << Sensor("Temperature", "GPU Core", IntV(4850)),
                Sensor("Temperature", "GPU Hot Spot", IntV(5900)),
                Sensor("Temperature", "GPU Core", IntV(9900)),
                Sensor("Fan", "GPU Fan", IntV(180000)),
                Sensor("Control", "GPU Fan", IntV(3500)) >>, << >>, "none")
GpuNodeAmd ==
    Hardware("GpuAmd",
             << Sensor("Temperature", "GPU Core", IntV(5275)),
                Sensor("Control", "GPU Fan", IntV(4100)) >>, << >>, "none")
\* a GPU whose Update() raises
GpuNodeFaulty == [GpuNodeNvidia EXCEPT !.fault = "update"]
\* CPU nodes whose traversal raises: at hw.SubHardware, after the sensors were
\* read; at hw.Sensors; and at the conversion of the Core Average value, after
\* the package temperature was read
CpuNodeSubFault == [CpuNodeA EXCEPT !.fault = "sub"]
CpuNodeSensorsFault == [CpuNodeB EXCEPT !.fault = "sensors"]
CpuNodeBadValue ==
    Hardware("Cpu",
             << Sensor("Temperature", "CPU Package", IntV(6180)),
                Sensor("Temperature", "Core Average", BadValue),
                Sensor("Temperature", "Core Max", IntV(7075)) >>, << >>, "none")
\* a GPU node whose hot spot value cannot be converted, after the core
\* temperature was read
GpuNodeBadValue ==
    Hardware("GpuNvidia",
             << Sensor("Temperature", "GPU Core", IntV(4850)),
                Sensor("Temperature", "GPU Hot Spot", BadValue),
                Sensor("Fan", "GPU Fan", IntV(180000)) >>, << >>, "none")
\* the node without its fan and control sensors
WithoutFans(hw) ==
    [hw EXCEPT !.sensors = SelectSeq(@, LAMBDA s : s.stype \notin {"Fan", "Control"}),
               !.sub = [i \in DOMAIN @ |->
                          SelectSeq(@[i], LAMBDA s : s.stype \notin {"Fan", "Control"})]]
\* the node with other readings on its fan and control sensors
OtherFans(hw) ==
    LET other(s) == IF s.stype \in {"Fan", "Control"} /\ ~IsNone(s.val)
                    THEN [s EXCEPT !.val = IntV(s.val.n + 1000)] ELSE s
    IN  [hw EXCEPT !.sensors = [i \in DOMAIN @ |-> other(@[i])],
                   !.sub = [i \in DOMAIN @ |-> [j \in DOMAIN @[i] |-> other(@[i][j])]]]
\* _LHM_COMPUTER.Hardware on the machines considered
HardwareLists ==
    { << >>,
      << CpuNodeA, GpuNodeNvidia >>,
      << BoardNode, CpuNodeB, GpuNodeIntel, GpuNodeNvidia >>,
      << GpuNodeAmd, CpuNodeA, GpuNodeNvidia >>,
      << CpuNodeA, GpuNodeFaulty >>,
      << CpuNodeSubFault, GpuNodeBadValue >>,
      << CpuNodeA, CpuNodeSensorsFault, GpuNodeAmd >>,
      << CpuNodeBadValue, GpuNodeNvidia >> }
\* _LHM_COMPUTER: None when the library could not be loaded (lines 34, 70), or
\* the computer with its hardware, also with the fan readings absent or changed
LhmComputers ==
    { None } \cup { [t |-> "computer", hardware |-> h] : h \in HardwareLists }
    \cup { [t |-> "computer", hardware |-> [i \in DOMAIN h |-> WithoutFans(h[i])]] :
             h \in HardwareLists }
    \cup { [t |-> "computer", hardware |-> [i \in DOMAIN h |-> OtherFans(h[i])]] :
             h \in HardwareLists }

\* what a call into NVML does: it returns a number, raises NVMLError, or raises
\* another exception (ctypes raises OSError when the driver call faults)
Returns(n) == [t |-> "returns", n |-> n]
RaisesNVMLError == [t |-> "NVMLError"]
RaisesOther == [t |-> "OSError"]
\* _NVML_AVAILABLE, and nvmlDeviceGetHandleByIndex(0), nvmlDeviceGetTemperature
\* and nvmlDeviceGetFanSpeed on the first GPU
Nvml(available, handle, temp, fan) ==
    [available |-> available, handle |-> handle, temp |-> temp, fan |-> fan]
NvmlStates ==
    { Nvml(FALSE, RaisesNVMLError, RaisesNVMLError, RaisesNVMLError),
      Nvml(TRUE, RaisesNVMLError, Returns(55), Returns(40)),
      Nvml(TRUE, Returns(1), RaisesNVMLError, Returns(40)),
      Nvml(TRUE, Returns(1), Returns(55), Returns(40)),
      Nvml(TRUE, Returns(1), Returns(67), Returns(0)),
      Nvml(TRUE, Returns(1), Returns(55), RaisesNVMLError),
      Nvml(TRUE, Returns(1), Returns(55), RaisesOther) }

\* psutil.sensors_temperatures() and psutil.sensors_fans(): "raises", or the
\* groups in the order of the dict, each a name and its readings (hundredths)
Group(name, readings) == [name |-> name, readings |-> readings]
PsutilRaises == [t |-> "raises"]
Groups(groups) == [t |-> "dict", groups |-> groups]
SensorsTemperatures ==
    { PsutilRaises, Groups(<< >>),
      Groups(<< Group("acpitz", << 4100 >>), Group("coretemp", << 5000, 5250, 6100 >>) >>),
      Groups(<< Group("nvme", << 3880, 4620 >>), Group("iwlwifi", << 4400 >>) >>),
      Groups(<< Group("k10temp", << >>) >>),
      Groups(<< Group("nvme", << >>) >>) }
SensorsFans ==
    { PsutilRaises, Groups(<< >>),
      Groups(<< Group("thinkpad", << >>), Group("asus", << 245050, 310000 >>) >>) }

\* the machine the server runs on: os.name and the sensors it has
Machine(os_name, lhm, nvml, temps, fans) ==
    [os_name |-> os_name, lhm |-> lhm, nvml |-> nvml, temps |-> temps, fans |-> fans]
\* a Windows machine has no psutil temperature or fan sensors (psutil provides
\* them on Linux only); the library is loaded on Windows only (line 39)
WindowsMachines ==
    { Machine("nt", l, n, PsutilRaises, PsutilRaises) : l \in LhmComputers, n \in NvmlStates }
OtherMachines ==
    { Machine("posix", None, n, tm, f) :
        n \in NvmlStates, tm \in SensorsTemperatures, f \in SensorsFans }
\* the machine of the mode-control runs: the driver alone, no other sensor
BareMachine ==
    Machine("nt", None, Nvml(FALSE, RaisesNVMLError, RaisesNVMLError, RaisesNVMLError),
            PsutilRaises, PsutilRaises)

Clients == 1..NumClients
\* executor 0 is the module import (process start); the others serve requests
Main == 0
Executors == {Main} \cup Clients
HandleIds == 1..MaxHandles

VARIABLES
    phase,              \* "down": process not started; "up": module imported
    file,               \* content of mode_cache.json
    cached_cpu_mode,    \* _cached_cpu_mode
    cached_gpu_mode,    \* _cached_gpu_mode
    handles,            \* handles to \\.\ATKACPI that are open
    writable,           \* whether open(mode_cache.json, "w") succeeds for this process
    th,                 \* per executor: position, request, locals, response
    hist,               \* history: what the successful writes asked for and left
    sens,               \* the machine: os.name and the sensors outside the driver
    probe_out           \* what a run of lhm_probe.py printed ("not run": none yet)

vars == << phase, file, writable, cached_cpu_mode, cached_gpu_mode, handles, th, hist,
           sens, probe_out >>

NoExchange ==
    [fn |-> "none", stage |-> "idle", device_id |-> 0, value |-> 0, handle |-> 0,
     in_buf |-> <<>>, ok |-> FALSE, raw |-> 0, val |-> 0, ret |-> None]
NoRequest == [kind |-> "none", cpu_mode |-> Absent, gpu_mode |-> Absent]
\* a client that is not being served has its next request waiting for the event loop
IdleThread ==
    [pc |-> "pending", req |-> NoRequest, ex |-> NoExchange, errors |-> <<>>,
     key |-> <<>>, args |-> << None, None >>, rpm |-> << None, None >>,
     temps |-> << None, None, None, None, None >>, eco |-> None, opens |-> 0, ioctls |-> 0, writes |-> 0, resp |-> [status |-> 0]]
\* the mode a name denotes: the one that equals it when letter case is ignored
CpuModes == { s_Silent, s_Balanced, s_Turbo, s_Performance, s_Manual }
GpuModes == { s_Eco, s_Standard, s_Ultimate }
Denotes(modes, name) ==
    IF \E m \in modes : lower(m) = lower(name)
    THEN StrV(CHOOSE m \in modes : lower(m) = lower(name))
    ELSE None
\* history: want_cpu and want_gpu are the modes the last successful write on each
\* axis asked for since the process started (None: no such write); written says
\* that some mode write has succeeded, in this process or an earlier one; mem
\* is, from the end of such a process until the next one serves its first
\* request, the pair that was in memory when it ended (<<>> otherwise). Memory
\* changes only at lines 243, 258 and 292, so that pair is the one the last
\* successful write left. detected says that a call of _get_gpu_mode has found
\* a mode by reading the registers since the process started or last set a
\* GPU mode.
NotRun == [t |-> "not run"]
NoHist ==
    [want_cpu |-> None, want_gpu |-> None, written |-> FALSE, mem |-> <<>>,
     detected |-> FALSE]

Init ==
    /\ phase = "down"
    /\ file \in InitialFiles
    /\ cached_cpu_mode = None
    /\ cached_gpu_mode = None
    /\ handles = {}
    /\ writable \in BOOLEAN
    \* a place that cannot be written holds no file or a record left there
    /\ writable \/ file \in {FileMissing, save_mode_cache_text(StrV(s_Turbo), None)}
    /\ th = [e \in Executors |-> IF e = Main THEN [IdleThread EXCEPT !.pc = "load_mode_cache"]
                                              ELSE IdleThread]
    /\ hist = NoHist
    /\ sens = BareMachine
    /\ probe_out = NotRun

(***************************************************************************)
(* The device exchange shared by _atk_read_fan, _atk_read_device and      *)
(* _atk_write_device: CreateFileW, DeviceIoControl, CloseHandle.           *)
(***************************************************************************)
\* a call of one of the three functions: the exchange starts at CreateFileW
Call(fn, device_id, value) ==
    [NoExchange EXCEPT !.fn = fn, !.stage = "open", !.device_id = device_id, !.value = value]

\* an open failure reported to the fan readers as a count of zero
atk_open_failed_ret_zero(fn) == IF fn = "write_device" THEN BoolV(FALSE) ELSE IntV(0)
\* what each function returns when the handle is invalid (lines 127-128, 170-171, 193-194)
atk_open_failed_ret(fn) == IF fn = "write_device" THEN BoolV(FALSE) ELSE None

\* the command each function packs (lines 130, 173, 196)
atk_in_buf(x) ==
    CASE x.fn = "read_fan" -> atk_read_fan_in_buf(x.device_id)
      [] x.fn = "read_device" -> atk_read_device_in_buf(x.device_id)
      [] x.fn = "write_device" -> atk_write_device_in_buf(x.device_id, x.value)

\* the local val of _atk_read_fan (lines 145-147); the value _atk_read_device
\* decodes (line 183)
atk_val(fn, out_buf) ==
    CASE fn = "read_fan" -> atk_read_fan_val(Unpack_i32(out_buf, 0))
      [] fn = "read_device" -> atk_read_device_val(Unpack_i32(out_buf, 0))
      [] fn = "write_device" -> 0

\* what each function returns after the transfer (lines 141-150, 180-183, 203)
atk_ioctl_ret(fn, ok, out_buf) ==
    CASE fn = "read_fan" ->
            IF ~ok THEN None ELSE atk_read_fan_rpm(Unpack_i32(out_buf, 0))
      [] fn = "read_device" ->
            IF ~ok THEN None ELSE IntV(atk_read_device_val(Unpack_i32(out_buf, 0)))
      [] fn = "write_device" -> BoolV(ok)

\* the handle value the operating system returns: the lowest one not in use
FreeHandles == HandleIds \ handles
NewHandle == CHOOSE h \in FreeHandles : \A g \in FreeHandles : h <= g

CreateFileW(e) ==
    /\ th[e].ex.stage = "open"
    /\ \/ /\ FreeHandles # {}
          /\ handles' = handles \cup {NewHandle}
          /\ th' = [th EXCEPT ![e].ex.handle = NewHandle, ![e].ex.stage = "ioctl",
                              ![e].opens = @ + 1]
       \/ /\ handles' = handles
          /\ th' = [th EXCEPT ![e].ex.stage = "done",
                              ![e].ex.ret = atk_open_failed_ret(th[e].ex.fn),
                              ![e].opens = @ + 1]
    /\ UNCHANGED << writable, phase, file, cached_cpu_mode, cached_gpu_mode, hist, sens, probe_out >>

\* variant: "if not ok: return" placed outside the try ... finally, so that a
\* failed transfer returns without closing the handle
DeviceIoControl_no_finally(e) ==
    LET x == th[e].ex
        isWrite == x.fn = "write_device"
    IN
    /\ x.stage = "ioctl"
    /\ x.handle \in handles
    /\ \/ th' = [th EXCEPT ![e].ex.in_buf = atk_in_buf(x), ![e].ex.ok = FALSE,
                              ![e].ex.ret = atk_ioctl_ret(x.fn, FALSE, OutBuf(0)),
                              ![e].ex.stage = "done",
                              ![e].ioctls = @ + 1,
                              ![e].writes = @ + (IF isWrite THEN 1 ELSE 0)]
       \/ \E raw \in (IF isWrite THEN {0} ELSE Replies(x.device_id)) :
            th' = [th EXCEPT ![e].ex.in_buf = atk_in_buf(x), ![e].ex.ok = TRUE,
                                ![e].ex.raw = Unpack_i32(OutBuf(raw), 0),
                                ![e].ex.val = atk_val(x.fn, OutBuf(raw)),
                                ![e].ex.ret = atk_ioctl_ret(x.fn, TRUE, OutBuf(raw)),
                                ![e].ex.stage = "close",
                                ![e].ioctls = @ + 1,
                                ![e].writes = @ + (IF isWrite THEN 1 ELSE 0)]
    /\ UNCHANGED << writable, phase, file, cached_cpu_mode, cached_gpu_mode, handles, hist, sens, probe_out >>

DeviceIoControl(e) ==
    LET x == th[e].ex
        isWrite == x.fn = "write_device"
    IN
    /\ x.stage = "ioctl"
    /\ x.handle \in handles
    /\ \/ \* the transfer fails
          /\ th' = [th EXCEPT ![e].ex.in_buf = atk_in_buf(x), ![e].ex.ok = FALSE,
                              ![e].ex.ret = atk_ioctl_ret(x.fn, FALSE, OutBuf(0)),
                              ![e].ex.stage = "close",
                              ![e].ioctls = @ + 1,
                              ![e].writes = @ + (IF isWrite THEN 1 ELSE 0)]
       \/ \* the transfer succeeds; a read receives a reply
          \E raw \in (IF isWrite THEN {0} ELSE Replies(x.device_id)) :
            th' = [th EXCEPT ![e].ex.in_buf = atk_in_buf(x), ![e].ex.ok = TRUE,
                                ![e].ex.raw = Unpack_i32(OutBuf(raw), 0),
                                ![e].ex.val = atk_val(x.fn, OutBuf(raw)),
                                ![e].ex.ret = atk_ioctl_ret(x.fn, TRUE, OutBuf(raw)),
                                ![e].ex.stage = "close",
                                ![e].ioctls = @ + 1,
                                ![e].writes = @ + (IF isWrite THEN 1 ELSE 0)]
    /\ UNCHANGED << writable, phase, file, cached_cpu_mode, cached_gpu_mode, handles, hist, sens, probe_out >>

CloseHandle(e) ==
    /\ th[e].ex.stage = "close"
    /\ handles' = handles \ {th[e].ex.handle}
    /\ th' = [th EXCEPT ![e].ex.stage = "done"]
    /\ UNCHANGED << writable, phase, file, cached_cpu_mode, cached_gpu_mode, hist, sens, probe_out >>

\* the exchange an executor waits for has returned
Returned(e, pc) == th[e].pc = pc /\ th[e].ex.stage = "done"

(***************************************************************************)
(* Process start: line 243, _load_mode_cache and _read_cpu_mode_from_hw.   *)
(***************************************************************************)
\* a start-up read that takes the value 0 for a failure as well
read_cpu_mode_from_hw_ret_positive(val) ==
    IF IsNone(val) \/ val.n <= 0 THEN None
    ELSE IF val.n \in DOMAIN CPU_MODE_MAP THEN StrV(CPU_MODE_MAP[val.n]) ELSE None
\* lines 217-220: the mode for a value read from the CPU-mode register
read_cpu_mode_from_hw_ret(val) ==
    IF IsNone(val) \/ val.n < 0 THEN None
    ELSE IF val.n \in DOMAIN CPU_MODE_MAP THEN StrV(CPU_MODE_MAP[val.n]) ELSE None

load_mode_cache(e) ==
    /\ e = Main
    /\ phase = "down"
    /\ th[e].pc = "load_mode_cache"
    /\ IF load_mode_cache_raises(file)
       THEN /\ th' = [th EXCEPT ![e].pc = "read_cpu_mode_from_hw",
                                ![e].ex = Call("read_device", ATK_CPU_MODE_ID, 0)]
            /\ UNCHANGED << writable, phase, cached_cpu_mode, cached_gpu_mode, sens, probe_out >>
       ELSE /\ cached_cpu_mode' = load_mode_cache_pair(file)[1]
            /\ cached_gpu_mode' = load_mode_cache_pair(file)[2]
            /\ phase' = "up"
            /\ th' = [th EXCEPT ![e].pc = "imported"]
    /\ UNCHANGED << writable, file, handles, hist, sens, probe_out >>

read_cpu_mode_from_hw(e) ==
    /\ e = Main
    /\ Returned(e, "read_cpu_mode_from_hw")
    /\ cached_cpu_mode' = read_cpu_mode_from_hw_ret(th[e].ex.ret)
    /\ cached_gpu_mode' = None
    /\ phase' = "up"
    /\ th' = [th EXCEPT ![e].pc = "imported", ![e].ex = NoExchange]
    /\ UNCHANGED << writable, file, handles, hist, sens, probe_out >>

\* no handler is running on the event loop
Quiet == \A c \in Clients : th[c].pc = "pending"

\* the process ends between requests and is started again: memory and the
\* connections are lost, the file and the hardware stay
Restart ==
    /\ phase = "up"
    /\ Quiet
    /\ phase' = "down"
    /\ cached_cpu_mode' = None
    /\ cached_gpu_mode' = None
    /\ th' = [e \in Executors |->
                IF e = Main THEN [IdleThread EXCEPT !.pc = "load_mode_cache"]
                ELSE IdleThread]
    /\ hist' = [hist EXCEPT !.want_cpu = None, !.want_gpu = None, !.detected = FALSE,
                            !.mem = IF hist.written
                                    THEN << cached_cpu_mode, cached_gpu_mode >> ELSE <<>>]
    /\ UNCHANGED << file, writable, handles, sens, probe_out >>

(***************************************************************************)
(* POST /modes: set_modes, _set_cpu_mode, _set_gpu_mode, _save_mode_cache. *)
(***************************************************************************)
\* variant: the handlers run on worker threads, a request starting at any time
LoopFree_threads(c) == TRUE

\* set_modes and get_stats are coroutines that never await: the event loop runs
\* one handler to its end before it starts the next
LoopFree(c) == \A d \in Clients \ {c} : th[d].pc = "pending"

\* the event loop starts set_modes on a POST /modes request
post_modes(c) ==
    /\ phase = "up"
    /\ sens.os_name = "nt"
    /\ th[c].pc = "pending"
    /\ LoopFree(c)
    /\ \E cpu \in CpuNames \cup {Absent}, gpu \in GpuNames \cup {Absent} :
         th' = [th EXCEPT ![c] = [IdleThread EXCEPT
                    !.pc = "set_modes_cpu",
                    !.req = [kind |-> "modes", cpu_mode |-> cpu, gpu_mode |-> gpu]]]
    /\ UNCHANGED << writable, phase, file, cached_cpu_mode, cached_gpu_mode, handles, sens, probe_out >>
    /\ hist' = [hist EXCEPT !.mem = <<>>]

\* the error texts of set_modes, by their fixed part, with the name they quote
Error(text, name) == [text |-> text, name |-> name]

\* variant: every mode the register can report passes the check of set_modes
cpu_mode_is_valid_readable(name) ==
    \E v \in DOMAIN CPU_MODE_MAP : lower(CPU_MODE_MAP[v]) = lower(name)
\* variant: Ultimate passes the check of set_modes
gpu_mode_is_valid_ultimate(name) == lower(name) \in {s_eco, s_standard, lower(s_Ultimate)}

\* line 718
cpu_mode_is_valid(name) == lower(name) \in DOMAIN CPU_MODE_WRITE_MAP
\* line 724
gpu_mode_is_valid(name) == lower(name) \in {s_eco, s_standard}

\* lines 717-721, up to the call of _set_cpu_mode
set_modes_cpu(c) ==
    LET m == th[c].req.cpu_mode IN
    /\ th[c].pc = "set_modes_cpu"
    /\ th' = IF m = Absent
             THEN [th EXCEPT ![c].pc = "set_modes_gpu"]
             ELSE IF ~cpu_mode_is_valid(m)
             THEN [th EXCEPT ![c].pc = "set_modes_gpu",
                             ![c].errors = Append(@, Error("Invalid cpu_mode", m))]
             ELSE [th EXCEPT ![c].pc = "set_cpu_mode"]
    /\ UNCHANGED << writable, phase, file, cached_cpu_mode, cached_gpu_mode, handles, hist, sens, probe_out >>

\* _set_cpu_mode, lines 252-256
set_cpu_mode(c) ==
    LET mode == th[c].req.cpu_mode
        key == lower(mode)
    IN
    /\ th[c].pc = "set_cpu_mode"
    /\ th' = IF key \notin DOMAIN CPU_MODE_WRITE_MAP
             THEN [th EXCEPT ![c].pc = "set_modes_gpu",
                             ![c].errors = Append(@, Error("Failed to set CPU mode", mode))]
             ELSE [th EXCEPT ![c].pc = "set_cpu_mode_write",
                             ![c].key = key,
                             ![c].ex = Call("write_device", ATK_CPU_MODE_ID,
                                            CPU_MODE_WRITE_MAP[key])]
    /\ UNCHANGED << writable, phase, file, cached_cpu_mode, cached_gpu_mode, handles, hist, sens, probe_out >>

\* variant: the cache takes the name as the client wrote it
set_cpu_mode_update_as_given(c) ==
    /\ Returned(c, "set_cpu_mode_write")
    /\ IF th[c].ex.ret.b
       THEN /\ cached_cpu_mode' = StrV(th[c].req.cpu_mode)
            /\ hist' = [hist EXCEPT !.want_cpu = Denotes(CpuModes, th[c].req.cpu_mode)]
            /\ th' = [th EXCEPT ![c].pc = "cpu_save_mode_cache", ![c].ex = NoExchange]
       ELSE /\ cached_cpu_mode' = cached_cpu_mode
            /\ hist' = hist
            /\ th' = [th EXCEPT ![c].pc = "set_modes_gpu", ![c].ex = NoExchange,
                        ![c].errors = Append(@, Error("Failed to set CPU mode",
                                                       th[c].req.cpu_mode))]
    /\ UNCHANGED << writable, phase, file, cached_gpu_mode, handles, sens, probe_out >>

\* variant: the cache takes the mode whether or not the driver accepted the write
set_cpu_mode_update_always(c) ==
    /\ Returned(c, "set_cpu_mode_write")
    /\ cached_cpu_mode' = StrV(DictGet(CPU_MODE_NAMES, th[c].key, th[c].req.cpu_mode))
    /\ hist' = [hist EXCEPT !.want_cpu = Denotes(CpuModes, th[c].req.cpu_mode)]
    /\ th' = [th EXCEPT ![c].pc = "cpu_save_mode_cache", ![c].ex = NoExchange]
    /\ UNCHANGED << writable, phase, file, cached_gpu_mode, handles, sens, probe_out >>
\* _set_cpu_mode, lines 257-259 and 261, and line 721 of set_modes
set_cpu_mode_update(c) ==
    /\ Returned(c, "set_cpu_mode_write")
    /\ IF th[c].ex.ret.b
       THEN /\ cached_cpu_mode' =
                   StrV(DictGet(CPU_MODE_NAMES, th[c].key, th[c].req.cpu_mode))
            /\ hist' = [hist EXCEPT !.want_cpu = Denotes(CpuModes, th[c].req.cpu_mode)]
            /\ th' = [th EXCEPT ![c].pc = "cpu_save_mode_cache", ![c].ex = NoExchange]
       ELSE /\ cached_cpu_mode' = cached_cpu_mode
            /\ hist' = hist
            /\ th' = [th EXCEPT ![c].pc = "set_modes_gpu", ![c].ex = NoExchange,
                        ![c].errors = Append(@, Error("Failed to set CPU mode",
                                                       th[c].req.cpu_mode))]
    /\ UNCHANGED << writable, phase, file, cached_gpu_mode, handles, sens, probe_out >>

\* lines 723-727, up to the call of _set_gpu_mode
set_modes_gpu(c) ==
    LET m == th[c].req.gpu_mode IN
    /\ th[c].pc = "set_modes_gpu"
    /\ th' = IF m = Absent
             THEN [th EXCEPT ![c].pc = "set_modes_finish"]
             ELSE IF ~gpu_mode_is_valid(m)
             THEN [th EXCEPT ![c].pc = "set_modes_finish",
                             ![c].errors = Append(@, Error("Invalid gpu_mode", m))]
             ELSE [th EXCEPT ![c].pc = "set_gpu_mode"]
    /\ UNCHANGED << writable, phase, file, cached_cpu_mode, cached_gpu_mode, handles, hist, sens, probe_out >>

\* _set_gpu_mode, lines 284-290
set_gpu_mode(c) ==
    LET mode == th[c].req.gpu_mode
        key == lower(mode)
    IN
    /\ th[c].pc = "set_gpu_mode"
    /\ th' = IF key = s_eco
             THEN [th EXCEPT ![c].pc = "set_gpu_mode_write", ![c].key = key,
                             ![c].ex = Call("write_device", ATK_GPU_ECO_ID, 1)]
             ELSE IF key = s_standard
             THEN [th EXCEPT ![c].pc = "set_gpu_mode_write", ![c].key = key,
                             ![c].ex = Call("write_device", ATK_GPU_ECO_ID, 0)]
             ELSE [th EXCEPT ![c].pc = "set_modes_finish",
                             ![c].errors = Append(@, Error("Failed to set GPU mode", mode))]
    /\ UNCHANGED << writable, phase, file, cached_cpu_mode, cached_gpu_mode, handles, hist, sens, probe_out >>

\* variant: the cache is updated before the result of the write is looked at
set_gpu_mode_update_unchecked(c) ==
    /\ Returned(c, "set_gpu_mode_write")
    /\ cached_gpu_mode' = StrV(DictGet(GPU_MODE_NAMES, th[c].key, th[c].req.gpu_mode))
    /\ IF th[c].ex.ret.b
       THEN /\ hist' = [hist EXCEPT !.want_gpu = Denotes(GpuModes, th[c].req.gpu_mode),
                                    !.detected = FALSE]
            /\ th' = [th EXCEPT ![c].pc = "gpu_save_mode_cache", ![c].ex = NoExchange]
       ELSE /\ hist' = hist
            /\ th' = [th EXCEPT ![c].pc = "set_modes_finish", ![c].ex = NoExchange,
                        ![c].errors = Append(@, Error("Failed to set GPU mode",
                                                       th[c].req.gpu_mode))]
    /\ UNCHANGED << writable, phase, file, cached_cpu_mode, handles, sens, probe_out >>

\* _set_gpu_mode, lines 291-292 and 294, and line 727 of set_modes
set_gpu_mode_update(c) ==
    /\ Returned(c, "set_gpu_mode_write")
    /\ IF th[c].ex.ret.b
       THEN /\ cached_gpu_mode' =
                   StrV(DictGet(GPU_MODE_NAMES, th[c].key, th[c].req.gpu_mode))
            /\ hist' = [hist EXCEPT !.want_gpu = Denotes(GpuModes, th[c].req.gpu_mode),
                                    !.detected = FALSE]
            /\ th' = [th EXCEPT ![c].pc = "gpu_save_mode_cache", ![c].ex = NoExchange]
       ELSE /\ cached_gpu_mode' = cached_gpu_mode
            /\ hist' = hist
            /\ th' = [th EXCEPT ![c].pc = "set_modes_finish", ![c].ex = NoExchange,
                        ![c].errors = Append(@, Error("Failed to set GPU mode",
                                                       th[c].req.gpu_mode))]
    /\ UNCHANGED << writable, phase, file, cached_cpu_mode, handles, sens, probe_out >>

\* lines 260 and 293: the arguments of _save_mode_cache are read from the globals
save_mode_cache_call(c) ==
    /\ th[c].pc \in {"cpu_save_mode_cache", "gpu_save_mode_cache"}
    /\ th' = [th EXCEPT ![c].args = << cached_cpu_mode, cached_gpu_mode >>,
                        ![c].pc = IF th[c].pc = "cpu_save_mode_cache"
                                  THEN "cpu_save_write" ELSE "gpu_save_write"]
    /\ UNCHANGED << writable, phase, file, cached_cpu_mode, cached_gpu_mode, handles, hist, sens, probe_out >>

\* what _save_mode_cache leaves in the file: the record, or, when open() raises
\* because the file cannot be written, what was there (lines 240-241 swallow
\* the exception)
save_mode_cache_file(old, cpu_mode, gpu_mode) ==
    IF writable THEN save_mode_cache_text(cpu_mode, gpu_mode) ELSE old

\* _save_mode_cache, lines 236-241, then the return of _set_cpu_mode (line 261)
\* or _set_gpu_mode (line 294) with True
save_mode_cache(c) ==
    /\ th[c].pc \in {"cpu_save_write", "gpu_save_write"}
    /\ file' = save_mode_cache_file(file, th[c].args[1], th[c].args[2])
    /\ hist' = [hist EXCEPT !.written = TRUE]
    /\ th' = [th EXCEPT ![c].pc = IF th[c].pc = "cpu_save_write"
                                  THEN "set_modes_gpu" ELSE "set_modes_finish",
                        ![c].args = << None, None >>]
    /\ UNCHANGED << phase, writable, cached_cpu_mode, cached_gpu_mode, handles, sens, probe_out >>

(***************************************************************************)
(* _get_cpu_mode and _get_gpu_mode, as called by set_modes and by          *)
(* get_system_stats.                                                       *)
(***************************************************************************)
get_cpu_mode == cached_cpu_mode

\* a detection that looks at the eco flag before the mux flag
get_gpu_mode_detect_eco_first(eco, mux) ==
    IF IsNone(eco) /\ IsNone(mux) THEN None
    ELSE IF eco = IntV(1) THEN StrV(s_Eco)
    ELSE IF mux = IntV(0) THEN StrV(s_Ultimate)
    ELSE StrV(s_Standard)
\* lines 271-277: the mode derived from the two flags
get_gpu_mode_detect(eco, mux) ==
    IF IsNone(eco) /\ IsNone(mux) THEN None
    ELSE IF mux = IntV(0) THEN StrV(s_Ultimate)
    ELSE IF eco = IntV(1) THEN StrV(s_Eco)
    ELSE StrV(s_Standard)

\* the response a handler builds once both modes are known
ModesResponse(c, cpu_mode, gpu_mode) ==
    IF th[c].req.kind = "modes"
    THEN [status |-> 200, modes |-> [cpu_mode |-> cpu_mode, gpu_mode |-> gpu_mode]]
    ELSE [status |-> 200, modes |-> [cpu_mode |-> cpu_mode, gpu_mode |-> gpu_mode],
          thermal |-> th[c].resp.thermal]

\* lines 729-735 of set_modes: the error reply, or _get_cpu_mode() and the
\* cached branch of _get_gpu_mode() (lines 265-266), or its first register read
set_modes_finish(c) ==
    /\ th[c].pc = "set_modes_finish"
    /\ th' = IF th[c].errors # <<>>
             THEN [th EXCEPT ![c].pc = "returned",
                             ![c].resp = [status |-> 400, errors |-> th[c].errors]]
             ELSE IF ~IsNone(cached_gpu_mode)
             THEN [th EXCEPT ![c].pc = "returned",
                             ![c].resp = ModesResponse(c, get_cpu_mode, cached_gpu_mode)]
             ELSE [th EXCEPT ![c].pc = "get_gpu_mode_eco",
                             ![c].resp = [status |-> 0, cpu_mode |-> get_cpu_mode],
                             ![c].ex = Call("read_device", ATK_GPU_ECO_ID, 0)]
    /\ UNCHANGED << writable, phase, file, cached_cpu_mode, cached_gpu_mode, handles, hist, sens, probe_out >>

\* variant: a detection that drops the cached CPU mode, to have it read again
get_gpu_mode_eco_forgets(c) ==
    /\ Returned(c, "get_gpu_mode_eco")
    /\ cached_cpu_mode' = None
    /\ th' = [th EXCEPT ![c].pc = "get_gpu_mode_mux",
                        ![c].eco = th[c].ex.ret,
                        ![c].ex = Call("read_device", ATK_GPU_MUX_ID, 0)]
    /\ UNCHANGED << writable, phase, file, cached_gpu_mode, handles, hist, sens, probe_out >>
\* _get_gpu_mode, lines 269-270: the eco flag is read, then the mux flag
get_gpu_mode_eco(c) ==
    /\ Returned(c, "get_gpu_mode_eco")
    /\ th' = [th EXCEPT ![c].pc = "get_gpu_mode_mux",
                        ![c].eco = th[c].ex.ret,
                        ![c].ex = Call("read_device", ATK_GPU_MUX_ID, 0)]
    /\ UNCHANGED << writable, phase, file, cached_cpu_mode, cached_gpu_mode, handles, hist, sens, probe_out >>

\* a detection that keeps the mode it found in _cached_gpu_mode
get_gpu_mode_mux_stores(c) ==
    /\ Returned(c, "get_gpu_mode_mux")
    /\ cached_gpu_mode' = get_gpu_mode_detect(th[c].eco, th[c].ex.ret)
    /\ th' = [th EXCEPT ![c].pc = "returned",
                        ![c].eco = None,
                        ![c].ex = NoExchange,
                        ![c].resp = ModesResponse(c, th[c].resp.cpu_mode,
                                        get_gpu_mode_detect(th[c].eco, th[c].ex.ret))]
    /\ hist' = [hist EXCEPT !.detected =
                    @ \/ get_gpu_mode_detect(th[c].eco, th[c].ex.ret) # None]
    /\ UNCHANGED << writable, phase, file, cached_cpu_mode, handles, sens, probe_out >>
\* _get_gpu_mode, lines 271-277, and the reply of the handler that called it
get_gpu_mode_mux(c) ==
    /\ Returned(c, "get_gpu_mode_mux")
    /\ th' = [th EXCEPT ![c].pc = "returned",
                        ![c].eco = None,
                        ![c].ex = NoExchange,
                        ![c].resp = ModesResponse(c, th[c].resp.cpu_mode,
                                        get_gpu_mode_detect(th[c].eco, th[c].ex.ret))]
    /\ hist' = [hist EXCEPT !.detected =
                    @ \/ get_gpu_mode_detect(th[c].eco, th[c].ex.ret) # None]
    /\ UNCHANGED << writable, phase, file, cached_cpu_mode, cached_gpu_mode, handles, sens, probe_out >>

(***************************************************************************)
(* GET /stats: get_system_stats, _get_thermal_stats, _atk_fan_speeds.      *)
(***************************************************************************)
\* a float with one decimal, held as its number of tenths
FloatV(tenths) == [t |-> "float", tenths |-> tenths]
\* round(num / den, 1) in tenths: the nearest tenth, a tie going to the even one
RoundTenths(num, den) ==
    LET n == num * 10
        q == n \div den
        r == n % den
    IN  IF 2 * r > den THEN q + 1
        ELSE IF 2 * r < den THEN q
        ELSE IF q % 2 = 0 THEN q ELSE q + 1
\* variant: the percentage cut to a whole number
fan_percent_whole(rpm) ==
    IF IsNone(rpm) THEN None ELSE FloatV(10 * ((rpm.n * 100) \div FAN_MAX_RPM))
\* lines 564-565: round(rpm / _FAN_MAX_RPM * 100, 1) if rpm is not None else None
fan_percent(rpm) ==
    IF IsNone(rpm) THEN None ELSE FloatV(RoundTenths(rpm.n * 100, FAN_MAX_RPM))

(***************************************************************************)
(* The sensor readers: _lhm_cpu_sensors, _lhm_gpu_sensors, _cpu_temp_linux, *)
(* _cpu_fan_linux, _gpu_stats_nvidia, and the stand-alone lhm_probe.py.    *)
(***************************************************************************)
\* round(float(val), 1) of a sensor value
round1(val) == FloatV(RoundTenths(val.n, 100))
\* an exception left the loop
Raised == << "raised" >>
NoReadings == << None, None, None, None >>
\* acc with round(float(val), 1) in place k, or the exception float() raises
Convert(acc, k, val) == IF val = BadValue THEN Raised ELSE [acc EXCEPT ![k] = round1(val)]

\* lines 429-443: one sensor of a CPU node; acc is
\* (package_temp, core_avg, core_max, fan_rpm)
lhm_cpu_sensor(acc, s) ==
    IF acc = Raised THEN Raised
    ELSE IF IsNone(s.val) THEN acc
    ELSE IF s.stype = "Temperature"
    THEN IF s.sname = "CPU Package" THEN Convert(acc, 1, s.val)
         ELSE IF s.sname = "Core Average" THEN Convert(acc, 2, s.val)
         ELSE IF s.sname = "Core Max" THEN Convert(acc, 3, s.val)
         ELSE acc
    ELSE IF s.stype = "Fan" /\ IsNone(acc[4]) THEN Convert(acc, 4, s.val)
    ELSE acc
\* lines 448-453: one sensor of a sub-node
lhm_cpu_sub_sensor(acc, s) ==
    IF acc = Raised THEN Raised
    ELSE IF IsNone(s.val) THEN acc
    ELSE IF s.stype = "Fan" /\ IsNone(acc[4]) THEN Convert(acc, 4, s.val)
    ELSE acc
lhm_cpu_sub(acc, sensors) ==
    LET f[i \in 0..Len(sensors)] ==
            IF i = 0 THEN acc ELSE lhm_cpu_sub_sensor(f[i - 1], sensors[i])
    IN  f[Len(sensors)]
\* a reader that guards the sub-node traversal on its own and keeps what the
\* sensors of the node gave
lhm_cpu_hardware_keeps(acc, hw) ==
    IF acc = Raised THEN Raised
    ELSE IF hw.htype # "Cpu" THEN acc
    ELSE IF hw.fault \in {"update", "sensors"} THEN Raised
    ELSE LET f[i \in 0..Len(hw.sensors)] ==
                 IF i = 0 THEN acc ELSE lhm_cpu_sensor(f[i - 1], hw.sensors[i])
             g[i \in 0..Len(hw.sub)] ==
                 IF i = 0 THEN f[Len(hw.sensors)] ELSE lhm_cpu_sub(g[i - 1], hw.sub[i])
         IN  IF f[Len(hw.sensors)] = Raised THEN Raised
             ELSE IF hw.fault = "sub" THEN f[Len(hw.sensors)]
             ELSE g[Len(hw.sub)]
\* lines 424-453: one hardware node
lhm_cpu_hardware(acc, hw) ==
    IF acc = Raised THEN Raised
    ELSE IF hw.htype # "Cpu" THEN acc
    ELSE IF hw.fault \in {"update", "sensors"} THEN Raised
    ELSE LET f[i \in 0..Len(hw.sensors)] ==
                 IF i = 0 THEN acc ELSE lhm_cpu_sensor(f[i - 1], hw.sensors[i])
             g[i \in 0..Len(hw.sub)] ==
                 IF i = 0 THEN f[Len(hw.sensors)] ELSE lhm_cpu_sub(g[i - 1], hw.sub[i])
         IN  IF f[Len(hw.sensors)] = Raised \/ hw.fault = "sub" THEN Raised
             ELSE g[Len(hw.sub)]
\* _lhm_cpu_sensors, lines 406-459
lhm_cpu_sensors(computer) ==
    IF IsNone(computer) THEN NoReadings
    ELSE LET h == computer.hardware
             f[i \in 0..Len(h)] ==
                 IF i = 0 THEN NoReadings ELSE lhm_cpu_hardware(f[i - 1], h[i])
         IN  IF f[Len(h)] = Raised THEN NoReadings ELSE f[Len(h)]

\* lines 483-497: one sensor of a GPU node; acc is
\* (core_temp, hotspot_temp, fan_rpm, fan_pct)
lhm_gpu_sensor(acc, s) ==
    IF acc = Raised THEN Raised
    ELSE IF IsNone(s.val) THEN acc
    ELSE IF s.stype = "Temperature"
    THEN IF s.sname = "GPU Core" /\ IsNone(acc[1]) THEN Convert(acc, 1, s.val)
         ELSE IF s.sname = "GPU Hot Spot" /\ IsNone(acc[2])
         THEN Convert(acc, 2, s.val)
         ELSE acc
    ELSE IF s.stype = "Fan"
    THEN IF IsNone(acc[3]) THEN Convert(acc, 3, s.val) ELSE acc
    ELSE IF s.stype = "Control"
    THEN IF IsNone(acc[4]) THEN Convert(acc, 4, s.val) ELSE acc
    ELSE acc
lhm_gpu_node(acc, hw) ==
    IF hw.fault \in {"update", "sensors"} THEN Raised
    ELSE LET f[i \in 0..Len(hw.sensors)] ==
                 IF i = 0 THEN acc ELSE lhm_gpu_sensor(f[i - 1], hw.sensors[i])
         IN  f[Len(hw.sensors)]
GpuTypes == { "GpuNvidia", "GpuAmd", "GpuIntel" }
\* _lhm_gpu_sensors, lines 462-503: the loop ends at the break of line 499,
\* after the first node of a GPU type
lhm_gpu_sensors(computer) ==
    IF IsNone(computer) THEN NoReadings
    ELSE LET h == computer.hardware
             gpus == { i \in DOMAIN h : h[i].htype \in GpuTypes }
         IN  IF gpus = {} THEN NoReadings
             ELSE LET first == CHOOSE i \in gpus : \A j \in gpus : i <= j
                      r == lhm_gpu_node(NoReadings, h[first])
                  IN  IF r = Raised THEN NoReadings ELSE r

\* lhm_probe.py, lines 6-16
none_payload ==
    [cpu_package_temp_celsius |-> None, cpu_core_avg_celsius |-> None,
     cpu_core_max_celsius |-> None, cpu_fan_rpm |-> None,
     gpu_core_temp_celsius |-> None, gpu_hotspot_celsius |-> None,
     gpu_fan_rpm |-> None, gpu_fan_percent |-> None]
\* lhm_probe.py, lines 49-85: one hardware node; acc is the pair of the CPU
\* readings and the GPU readings. A CPU node's sub-nodes are not visited, and
\* the loop goes on after a GPU node.
lhm_probe_hardware(acc, hw) ==
    IF acc = Raised THEN Raised
    ELSE IF hw.htype = "Cpu"
    THEN IF hw.fault \in {"update", "sensors"} THEN Raised
         ELSE LET f[i \in 0..Len(hw.sensors)] ==
                      IF i = 0 THEN acc[1] ELSE lhm_cpu_sensor(f[i - 1], hw.sensors[i])
              IN  IF f[Len(hw.sensors)] = Raised THEN Raised
                  ELSE << f[Len(hw.sensors)], acc[2] >>
    ELSE IF hw.htype \in GpuTypes
    THEN LET r == lhm_gpu_node(acc[2], hw)
         IN  IF r = Raised THEN Raised ELSE << acc[1], r >>
    ELSE acc
\* lhm_probe.py main, lines 19-110: the payload it prints. Loading the library
\* raises where the server could not load it either.
lhm_probe(computer) ==
    IF IsNone(computer) THEN none_payload
    ELSE LET h == computer.hardware
             f[i \in 0..Len(h)] ==
                 IF i = 0 THEN << NoReadings, NoReadings >>
                 ELSE lhm_probe_hardware(f[i - 1], h[i])
             r == f[Len(h)]
         IN  IF r = Raised THEN none_payload
             ELSE [cpu_package_temp_celsius |-> r[1][1], cpu_core_avg_celsius |-> r[1][2],
                   cpu_core_max_celsius |-> r[1][3], cpu_fan_rpm |-> r[1][4],
                   gpu_core_temp_celsius |-> r[2][1], gpu_hotspot_celsius |-> r[2][2],
                   gpu_fan_rpm |-> r[2][3], gpu_fan_percent |-> r[2][4]]

\* the readings of a group (dict lookup by key); the dict holds a name once
HasGroup(groups, name) == \E i \in DOMAIN groups : groups[i].name = name
GroupOf(groups, name) == groups[CHOOSE i \in DOMAIN groups : groups[i].name = name]
SumOf(readings) ==
    LET f[i \in 0..Len(readings)] == IF i = 0 THEN 0 ELSE f[i - 1] + readings[i]
    IN  f[Len(readings)]
PreferredGroups == << "coretemp", "k10temp", "cpu_thermal", "acpitz" >>
\* a reader that takes the first group of the dict whose name is a preferred one
cpu_temp_linux_dict_order(sensors_temperatures) ==
    IF sensors_temperatures = PsutilRaises THEN None
    ELSE IF sensors_temperatures.groups = << >> THEN None
    ELSE LET temps == sensors_temperatures.groups
             names == { PreferredGroups[k] : k \in DOMAIN PreferredGroups }
             present == { i \in DOMAIN temps : temps[i].name \in names }
             readings == IF present # {}
                         THEN temps[CHOOSE i \in present : \A j \in present : i <= j].readings
                         ELSE << temps[1].readings[1] >>
         IN  IF present # {} /\ Len(readings) = 0 THEN None
             ELSE IF present = {} /\ temps[1].readings = << >> THEN None
             ELSE FloatV(RoundTenths(SumOf(readings), 100 * Len(readings)))
\* _cpu_temp_linux, lines 506-521; an empty preferred group divides by zero,
\* which the except clause turns into None
cpu_temp_linux(sensors_temperatures) ==
    IF sensors_temperatures = PsutilRaises THEN None
    ELSE IF sensors_temperatures.groups = << >> THEN None
    ELSE LET temps == sensors_temperatures.groups
             present == { k \in DOMAIN PreferredGroups : HasGroup(temps, PreferredGroups[k]) }
         IN  IF present # {}
             THEN LET k == CHOOSE i \in present : \A j \in present : i <= j
                      readings == GroupOf(temps, PreferredGroups[k]).readings
                  IN  IF Len(readings) = 0 THEN None
                      ELSE FloatV(RoundTenths(SumOf(readings), 100 * Len(readings)))
             ELSE LET first == temps[1].readings
                  IN  IF first = << >> THEN None
                      ELSE FloatV(RoundTenths(first[1], 100))
\* _cpu_fan_linux, lines 524-535: round(x, 0) of the first reading of the first
\* group that has one
cpu_fan_linux(sensors_fans) ==
    IF sensors_fans = PsutilRaises THEN None
    ELSE IF sensors_fans.groups = << >> THEN None
    ELSE LET fans == sensors_fans.groups
             full == { i \in DOMAIN fans : fans[i].readings # << >> }
         IN  IF full = {} THEN None
             ELSE LET i == CHOOSE i \in full : \A j \in full : i <= j
                  IN  FloatV(10 * RoundTenths(fans[i].readings[1], 1000))

\* _gpu_stats_nvidia, lines 538-553: (temp, fan). Only an NVMLError of the fan
\* query is caught by the inner clause (line 549); any other exception reaches
\* the outer one (line 552)
gpu_stats_nvidia(nvml) ==
    IF ~nvml.available THEN << None, None >>
    ELSE IF nvml.handle.t # "returns" THEN << None, None >>
    ELSE IF nvml.temp.t # "returns" THEN << None, None >>
    ELSE IF nvml.fan.t = "returns"
    THEN << FloatV(10 * nvml.temp.n), FloatV(10 * nvml.fan.n) >>
    ELSE IF nvml.fan = RaisesNVMLError THEN << FloatV(10 * nvml.temp.n), None >>
    ELSE << None, None >>

\* the event loop starts get_stats on a GET /stats request; _get_thermal_stats
\* reads the vendor library (lines 559-560: the fan readings, fourth of the CPU
\* reader, third and fourth of the GPU reader, are dropped) and calls
\* _atk_fan_speeds, which reads the CPU fan first (line 158)
get_stats(c) ==
    LET cpu == lhm_cpu_sensors(sens.lhm)
        gpu == lhm_gpu_sensors(sens.lhm)
    IN
    /\ phase = "up"
    /\ sens.os_name = "nt"
    /\ th[c].pc = "pending"
    /\ LoopFree(c)
    /\ th' = [th EXCEPT ![c] = [IdleThread EXCEPT
                  !.pc = "atk_fan_speeds_cpu",
                  !.req = [NoRequest EXCEPT !.kind = "stats"],
                  !.temps = << cpu[1], cpu[2], cpu[3], gpu[1], gpu[2] >>,
                  !.ex = Call("read_fan", ATK_CPU_FAN_ID, 0)]]
    /\ UNCHANGED << writable, phase, file, cached_cpu_mode, cached_gpu_mode, handles, sens, probe_out >>
    /\ hist' = [hist EXCEPT !.mem = <<>>]

\* line 159: the GPU fan is read after the CPU fan
atk_fan_speeds_cpu(c) ==
    /\ Returned(c, "atk_fan_speeds_cpu")
    /\ th' = [th EXCEPT ![c].pc = "atk_fan_speeds_gpu",
                        ![c].rpm = << th[c].ex.ret, None >>,
                        ![c].ex = Call("read_fan", ATK_GPU_FAN_ID, 0)]
    /\ UNCHANGED << writable, phase, file, cached_cpu_mode, cached_gpu_mode, handles, hist, sens, probe_out >>

\* class ThermalStats, lines 351-360
ThermalStats(pkg_temp, core_avg, core_max, cpu_rpm, cpu_pct, gpu_core, gpu_hot, gpu_rpm, gpu_pct) ==
    [cpu_package_temp_celsius |-> pkg_temp, cpu_core_avg_celsius |-> core_avg,
     cpu_core_max_celsius |-> core_max, cpu_fan_rpm |-> cpu_rpm,
     cpu_fan_percent |-> cpu_pct, gpu_core_temp_celsius |-> gpu_core,
     gpu_hotspot_celsius |-> gpu_hot, gpu_fan_rpm |-> gpu_rpm,
     gpu_fan_percent |-> gpu_pct]
\* a merge that asks NVML first and uses LibreHardwareMonitor only as a fallback
gpu_core_merge_nvml_first(gpu_core, nvml) ==
    IF IsNone(gpu_stats_nvidia(nvml)[1]) THEN gpu_core ELSE gpu_stats_nvidia(nvml)[1]
\* lines 567-571: the GPU core temperature of the vendor library, or, when it
\* gave none, the one of NVML
gpu_core_merge(gpu_core, nvml) ==
    IF IsNone(gpu_core) THEN gpu_stats_nvidia(nvml)[1] ELSE gpu_core
\* a block that takes the LibreHardwareMonitor fan readings when the driver
\* gives none
get_thermal_stats_nt_lhm_fans(temps, cpu_fan_rpm, gpu_fan_rpm, nvml) ==
    LET cpu_fan == IF IsNone(cpu_fan_rpm) THEN lhm_cpu_sensors(sens.lhm)[4] ELSE cpu_fan_rpm
        gpu_fan == IF IsNone(gpu_fan_rpm) THEN lhm_gpu_sensors(sens.lhm)[3] ELSE gpu_fan_rpm
    IN  ThermalStats(temps[1], temps[2], temps[3], cpu_fan, fan_percent(cpu_fan_rpm),
                     gpu_core_merge(temps[4], nvml), temps[5],
                     gpu_fan, fan_percent(gpu_fan_rpm))
\* _get_thermal_stats on Windows, lines 563-583, from the locals temps =
\* (pkg_temp, core_avg, core_max, gpu_core, gpu_hot) and the two fan reads
get_thermal_stats_nt(temps, cpu_fan_rpm, gpu_fan_rpm, nvml) ==
    ThermalStats(temps[1], temps[2], temps[3], cpu_fan_rpm, fan_percent(cpu_fan_rpm),
                 gpu_core_merge(temps[4], nvml), temps[5],
                 gpu_fan_rpm, fan_percent(gpu_fan_rpm))
\* a block that reports the NVML fan speed as gpu_fan_rpm
get_thermal_stats_posix_fan_rpm(machine) ==
    ThermalStats(cpu_temp_linux(machine.temps), None, None, cpu_fan_linux(machine.fans),
                 None, gpu_stats_nvidia(machine.nvml)[1], None,
                 gpu_stats_nvidia(machine.nvml)[2], None)
\* _get_thermal_stats elsewhere, lines 584-598
get_thermal_stats_posix(machine) ==
    ThermalStats(cpu_temp_linux(machine.temps), None, None, cpu_fan_linux(machine.fans),
                 None, gpu_stats_nvidia(machine.nvml)[1], None, None,
                 gpu_stats_nvidia(machine.nvml)[2])

\* _get_thermal_stats returns; get_system_stats reads the modes (lines 652-656):
\* _get_cpu_mode() and the cached branch of _get_gpu_mode(), or its first read
atk_fan_speeds_gpu(c) ==
    LET thermal == get_thermal_stats_nt(th[c].temps, th[c].rpm[1], th[c].ex.ret, sens.nvml) IN
    /\ Returned(c, "atk_fan_speeds_gpu")
    /\ th' = IF ~IsNone(cached_gpu_mode)
             THEN [th EXCEPT ![c].pc = "returned",
                             ![c].rpm = << None, None >>,
                             ![c].temps = IdleThread.temps,
                             ![c].ex = NoExchange,
                             ![c].resp = [status |-> 200, thermal |-> thermal,
                                          modes |-> [cpu_mode |-> get_cpu_mode,
                                                     gpu_mode |-> cached_gpu_mode]]]
             ELSE [th EXCEPT ![c].pc = "get_gpu_mode_eco",
                             ![c].rpm = << None, None >>,
                             ![c].temps = IdleThread.temps,
                             ![c].resp = [status |-> 0, thermal |-> thermal,
                                          cpu_mode |-> get_cpu_mode],
                             ![c].ex = Call("read_device", ATK_GPU_ECO_ID, 0)]
    /\ UNCHANGED << writable, phase, file, cached_cpu_mode, cached_gpu_mode, handles, hist, sens, probe_out >>

\* get_stats where os.name is not "nt": the else branches of _get_thermal_stats
\* (lines 584-598) and of get_system_stats (line 658); no function of the
\* driver exists there (lines 79-294 are skipped)
get_stats_posix(c) ==
    /\ phase = "up"
    /\ sens.os_name # "nt"
    /\ th[c].pc = "pending"
    /\ LoopFree(c)
    /\ th' = [th EXCEPT ![c] = [IdleThread EXCEPT
                  !.pc = "returned",
                  !.req = [NoRequest EXCEPT !.kind = "stats"],
                  !.resp = [status |-> 200, thermal |-> get_thermal_stats_posix(sens),
                            modes |-> [cpu_mode |-> None, gpu_mode |-> None]]]]
    /\ UNCHANGED << writable, phase, file, cached_cpu_mode, cached_gpu_mode, handles, hist,
                    sens, probe_out >>

\* set_modes where os.name is not "nt", lines 713-714
post_modes_posix(c) ==
    /\ phase = "up"
    /\ sens.os_name # "nt"
    /\ th[c].pc = "pending"
    /\ LoopFree(c)
    /\ \E cpu \in CpuNames \cup {Absent}, gpu \in GpuNames \cup {Absent} :
         th' = [th EXCEPT ![c] = [IdleThread EXCEPT
                    !.pc = "returned",
                    !.req = [kind |-> "modes", cpu_mode |-> cpu, gpu_mode |-> gpu],
                    !.resp = [status |-> 501]]]
    /\ UNCHANGED << writable, phase, file, cached_cpu_mode, cached_gpu_mode, handles, hist,
                    sens, probe_out >>

\* a run of lhm_probe.py on the same machine: it opens its own computer
lhm_probe_main ==
    /\ probe_out = NotRun
    /\ probe_out' = lhm_probe(sens.lhm)
    /\ UNCHANGED << writable, phase, file, cached_cpu_mode, cached_gpu_mode, handles, hist,
                    sens, th >>

\* the response is sent and the event loop is free; the client's next
\* request waits
Return(c) ==
    /\ th[c].pc = "returned"
    /\ th' = [th EXCEPT ![c] = IdleThread]
    /\ UNCHANGED << writable, phase, file, cached_cpu_mode, cached_gpu_mode, handles, hist, sens, probe_out >>

Next ==
    \/ \E e \in Executors : CreateFileW(e)
    \/ \E e \in Executors : DeviceIoControl(e)
    \/ \E e \in Executors : CloseHandle(e)
    \/ \E e \in Executors : load_mode_cache(e)
    \/ \E e \in Executors : read_cpu_mode_from_hw(e)
    \/ Restart
    \/ \E c \in Clients : post_modes(c)
    \/ \E c \in Clients : set_modes_cpu(c)
    \/ \E c \in Clients : set_cpu_mode(c)
    \/ \E c \in Clients : set_cpu_mode_update(c)
    \/ \E c \in Clients : set_modes_gpu(c)
    \/ \E c \in Clients : set_gpu_mode(c)
    \/ \E c \in Clients : set_gpu_mode_update(c)
    \/ \E c \in Clients : save_mode_cache_call(c)
    \/ \E c \in Clients : save_mode_cache(c)
    \/ \E c \in Clients : set_modes_finish(c)
    \/ \E c \in Clients : get_gpu_mode_eco(c)
    \/ \E c \in Clients : get_gpu_mode_mux(c)
    \/ \E c \in Clients : get_stats(c)
    \/ \E c \in Clients : atk_fan_speeds_cpu(c)
    \/ \E c \in Clients : atk_fan_speeds_gpu(c)
    \/ \E c \in Clients : Return(c)

Spec == Init /\ [][Next]_vars

(***************************************************************************)
(* The telemetry runs: the server is up, on any of the machines, and       *)
(* serves GET /stats; lhm_probe.py may be run beside it.                   *)
(***************************************************************************)
\* the state after the import: on Windows the record (Turbo, Eco) was loaded;
\* elsewhere the mode cache does not exist
InitThermal ==
    /\ phase = "up"
    /\ sens \in WindowsMachines \cup OtherMachines
    /\ writable = TRUE
    /\ file = IF sens.os_name = "nt"
              THEN save_mode_cache_text(StrV(s_Turbo), StrV(s_Eco)) ELSE FileMissing
    /\ cached_cpu_mode = IF sens.os_name = "nt" THEN StrV(s_Turbo) ELSE None
    /\ cached_gpu_mode = IF sens.os_name = "nt" THEN StrV(s_Eco) ELSE None
    /\ handles = {}
    /\ th = [e \in Executors |-> IF e = Main THEN [IdleThread EXCEPT !.pc = "imported"]
                                              ELSE IdleThread]
    /\ hist = NoHist
    /\ probe_out = NotRun

NextThermal ==
    \/ \E c \in Clients : get_stats(c)
    \/ \E e \in Executors : CreateFileW(e)
    \/ \E e \in Executors : DeviceIoControl(e)
    \/ \E e \in Executors : CloseHandle(e)
    \/ \E c \in Clients : atk_fan_speeds_cpu(c)
    \/ \E c \in Clients : atk_fan_speeds_gpu(c)
    \/ \E c \in Clients : get_stats_posix(c)
    \/ \E c \in Clients : post_modes_posix(c)
    \/ lhm_probe_main
    \/ \E c \in Clients : Return(c)

SpecThermal == InitThermal /\ [][NextThermal]_vars

(***************************************************************************)
(* Properties.                                                             *)
(***************************************************************************)
Serving == { c \in Clients : th[c].pc # "pending" }
Replied == { c \in Clients : th[c].pc = "returned" }
MemoryPair == << cached_cpu_mode, cached_gpu_mode >>
\* a reply that reports the modes
HasModes(c) == c \in Replied /\ th[c].resp.status = 200

\* C1: once a mode write has succeeded in this process, the cache holds the mode
\* the written name denotes, and every reply that reports the modes (GET /stats
\* or POST /modes) reports it, whatever the registers would return; for the GPU
\* the cache is set, so that _get_gpu_mode reads no register.
C1_ReadsReflectLastWrite ==
    phase = "up" =>
      /\ ~IsNone(hist.want_cpu) =>
            /\ get_cpu_mode = hist.want_cpu
            /\ \A c \in Clients : HasModes(c) => th[c].resp.modes.cpu_mode = hist.want_cpu
      /\ ~IsNone(hist.want_gpu) =>
            /\ cached_gpu_mode = hist.want_gpu
            /\ \A c \in Clients : HasModes(c) => th[c].resp.modes.gpu_mode = hist.want_gpu
\* a GET /stats reply reports Turbo and Eco after writes of "TURBO" and of a GPU name
C1_Witness ==
    \E c \in Clients :
        /\ HasModes(c)
        /\ th[c].req.kind = "stats"
        /\ hist.want_cpu = StrV(s_Turbo)
        /\ hist.want_gpu = StrV(s_Eco)
        /\ th[c].resp.modes = [cpu_mode |-> StrV(s_Turbo), gpu_mode |-> StrV(s_Eco)]

\* the steps of a call of _set_cpu_mode or _set_gpu_mode that is not known to
\* have succeeded: from the call to the return of False
InWrite(c) ==
    th[c].pc \in {"set_cpu_mode", "set_cpu_mode_write", "set_gpu_mode", "set_gpu_mode_write"}
WriteFailed(c) == InWrite(c) /\ th[c].ex.stage = "done" /\ ~th[c].ex.ret.b
FailedText(c) ==
    IF th[c].pc = "set_cpu_mode_write"
    THEN Error("Failed to set CPU mode", th[c].req.cpu_mode)
    ELSE Error("Failed to set GPU mode", th[c].req.gpu_mode)

\* C2: while a mode write is in progress and until it is known to have
\* succeeded, the cache and the file do not change; when the handle cannot be
\* opened or the transfer fails, the call returns with them unchanged and
\* set_modes records the write failure for that axis.
C2_FailedWriteLeavesState ==
    [][ \A c \in Clients :
          /\ (InWrite(c) /\ (InWrite(c))' ) => (MemoryPair' = MemoryPair /\ file' = file)
          /\ (WriteFailed(c) /\ th'[c] # th[c]) =>
                /\ MemoryPair' = MemoryPair
                /\ file' = file
                /\ th'[c].errors = Append(th[c].errors, FailedText(c))
                /\ th'[c].pc \in {"set_modes_gpu", "set_modes_finish"} ]_vars
\* a request for "silent" answered with the write failure after a failed open,
\* the cache not holding Silent
C2_Witness ==
    \E c \in Clients :
        /\ c \in Replied
        /\ th[c].req.cpu_mode = s_Silent
        /\ th[c].resp.status = 400
        /\ th[c].resp.errors = << Error("Failed to set CPU mode", s_Silent) >>
        /\ th[c].opens = 1
        /\ th[c].ioctls = 0
        /\ cached_cpu_mode # StrV(s_Silent)

\* the state process start is checked in: the module is imported, no request
\* has been served, and an earlier process ended after a successful mode write
Restarted == phase = "up" /\ hist.mem # <<>>

PastCpu(c) ==
    c \in Serving /\ th[c].req.kind = "modes" /\ th[c].pc \notin {"set_modes_cpu"}
\* the names of the requests that denote none of the four writable modes
BadCpuNames == { n \in CpuNames : Denotes(CpuModes \ {s_Manual}, n) = None }
BadCpuName(c) == th[c].req.cpu_mode \in BadCpuNames

\* C4: every step leaves a request whose CPU name is none of the four writable
\* modes, once its CPU part is over, with the invalid-name error recorded first
\* and no handle opened nor transfer made for it, and the reply is a 400; the
\* step that rejects the name leaves the cache, the file and the handles as
\* they were.
C4_InvalidCpuNameRejected ==
    [][ \A c \in Clients :
          /\ ((PastCpu(c) /\ BadCpuName(c)) =>
                /\ Len(th[c].errors) >= 1
                /\ th[c].errors[1] = Error("Invalid cpu_mode", th[c].req.cpu_mode)
                /\ (th[c].pc = "set_modes_gpu" => (th[c].opens = 0 /\ th[c].ioctls = 0))
                /\ (c \in Replied => th[c].resp.status = 400))'
          /\ (th[c].pc = "set_modes_cpu" /\ BadCpuName(c) /\ th'[c] # th[c]) =>
                /\ MemoryPair' = MemoryPair
                /\ file' = file
                /\ handles' = handles
                /\ th'[c].pc = "set_modes_gpu" ]_vars
\* "Manual" rejected as an invalid name without any device access
C4_Witness ==
    \E c \in Clients :
        /\ c \in Replied
        /\ th[c].req.cpu_mode = s_Manual
        /\ th[c].req.gpu_mode = Absent
        /\ th[c].resp.status = 400
        /\ th[c].resp.errors = << Error("Invalid cpu_mode", s_Manual) >>
        /\ th[c].opens = 0

\* the GPU part of set_modes is over
PastGpu(c) ==
    c \in Serving /\ th[c].req.kind = "modes"
    /\ th[c].pc \in {"set_modes_finish", "get_gpu_mode_eco", "get_gpu_mode_mux", "returned"}
UltimateNames == { n \in GpuNames : lower(n) = lower(s_Ultimate) }
UnrecognisedNames == { n \in GpuNames : Denotes(GpuModes, n) = None }
IsUltimate(name) == name \in UltimateNames
Unrecognised(name) == name \in UnrecognisedNames
\* the error set_modes recorded for the GPU mode
GpuError(c) == th[c].errors[Len(th[c].errors)]

\* C5 as stated: "ultimate" is rejected with an outcome of its own, which is
\* neither the one an unrecognised name gets nor the write failure.
C5_AsStated ==
    \A c \in Clients : (PastGpu(c) /\ IsUltimate(th[c].req.gpu_mode)) =>
        /\ Len(th[c].errors) >= 1
        /\ GpuError(c).name = th[c].req.gpu_mode
        /\ GpuError(c).text \notin {"Invalid gpu_mode", "Failed to set GPU mode"}
\* C5, amended: every step leaves a request for "ultimate", in any letter case,
\* once its GPU part is over, with the invalid-name error recorded, the same an
\* unrecognised name gets and not the write failure, and the reply is a 400; the
\* step that rejects it opens no handle, makes no transfer and leaves the cache
\* and the file as they were.
C5_UltimateRejected ==
    [][ \A c \in Clients :
          /\ ((PastGpu(c) /\ (IsUltimate(th[c].req.gpu_mode) \/ Unrecognised(th[c].req.gpu_mode))) =>
                /\ Len(th[c].errors) >= 1
                /\ GpuError(c) = Error("Invalid gpu_mode", th[c].req.gpu_mode)
                /\ (c \in Replied => th[c].resp.status = 400))'
          /\ (th[c].pc = "set_modes_gpu" /\ IsUltimate(th[c].req.gpu_mode) /\ th'[c] # th[c]) =>
                /\ MemoryPair' = MemoryPair
                /\ file' = file
                /\ handles' = handles
                /\ th'[c].opens = th[c].opens
                /\ th'[c].ioctls = th[c].ioctls
                /\ th'[c].pc = "set_modes_finish" ]_vars
\* "ULTIMATE" rejected without any device access while the cache holds Eco
C5_Witness ==
    \E c \in Clients :
        /\ c \in Replied
        /\ th[c].req.cpu_mode = Absent
        /\ th[c].req.gpu_mode = s_ULTIMATE
        /\ th[c].resp.status = 400
        /\ th[c].resp.errors = << Error("Invalid gpu_mode", s_ULTIMATE) >>
        /\ th[c].opens = 0
        /\ cached_gpu_mode = StrV(s_Eco)

\* no request is being served
AllReturned == \A c \in Clients : th[c].pc \in {"pending", "returned"}
\* some mode write has succeeded since the process started
WroteHere == ~IsNone(hist.want_cpu) \/ ~IsNone(hist.want_gpu)
NoneLost ==
    /\ ~IsNone(hist.want_cpu) => cached_cpu_mode = hist.want_cpu
    /\ ~IsNone(hist.want_gpu) => cached_gpu_mode = hist.want_gpu
RecordIsMemory == ~load_mode_cache_raises(file) /\ load_mode_cache_pair(file) = MemoryPair

InExchange == { e \in Executors : th[e].ex.stage \in {"ioctl", "close"} }

\* C7: the open handles are exactly those of the exchanges in progress, one
\* handle for each, so that no handle is open when no exchange is in progress and
\* an exchange that is over, on any outcome, has left none behind.
C7_HandlesScoped ==
    /\ handles = { th[e].ex.handle : e \in InExchange }
    /\ \A e1, e2 \in InExchange : th[e1].ex.handle = th[e2].ex.handle => e1 = e2
    /\ InExchange = {} => handles = {}
    /\ \A e \in Executors : th[e].ex.stage = "done" => th[e].ex.handle \notin handles
\* a fan read whose transfer failed has returned, and no handle is open
C7_Witness ==
    \E c \in Clients :
        /\ th[c].ex.fn = "read_fan"
        /\ th[c].ex.stage = "done"
        /\ th[c].ex.handle \in HandleIds
        /\ ~th[c].ex.ok
        /\ th[c].ioctls >= 1
        /\ handles = {}

\* the executors whose read has decoded a reply
Decoded(fn) == { e \in Executors : th[e].ex.fn = fn /\ th[e].ex.ok
                                   /\ th[e].ex.stage \in {"close", "done"} }
BiasRange == (0 - ATK_BIAS)..(ATK_BIAS - 1)

\* C8 as stated: a decoded value is in [-65536, 65535]; 65536+3 gives 3, 65536-3
\* gives -3 and 0 gives 0, on the fan read and on the register read.
C8_AsStated ==
    \A e \in Decoded("read_fan") \cup Decoded("read_device") :
        /\ th[e].ex.val \in BiasRange
        /\ th[e].ex.raw = ATK_BIAS + 3 => th[e].ex.val = 3
        /\ th[e].ex.raw = ATK_BIAS - 3 => th[e].ex.val = 0 - 3
        /\ th[e].ex.raw = 0 => th[e].ex.val = 0
\* C8, amended: the register read decodes raw to raw - 65536, which is in
\* [-65536, 65535] exactly when raw is in [0, 131071] (65536+3 gives 3, 65536-3
\* gives -3, 0 gives -65536); the fan read decodes raw to raw - 65536 when that
\* is not negative and to raw itself otherwise (65536+3 gives 3, 65536-3 gives
\* 65533, 0 gives 0).
C8_DecodeByPath ==
    /\ \A e \in Decoded("read_device") :
        LET raw == th[e].ex.raw
            val == th[e].ex.val
        IN  /\ val = raw - ATK_BIAS
            /\ val \in BiasRange <=> raw \in 0..(2 * ATK_BIAS - 1)
            /\ raw = ATK_BIAS + 3 => val = 3
            /\ raw = ATK_BIAS - 3 => val = 0 - 3
            /\ raw = 0 => val = 0 - ATK_BIAS
    /\ \A e \in Decoded("read_fan") :
        LET raw == th[e].ex.raw
            val == th[e].ex.val
        IN  /\ val = IF raw >= ATK_BIAS THEN raw - ATK_BIAS ELSE raw
            /\ raw = ATK_BIAS + 3 => val = 3
            /\ raw = ATK_BIAS - 3 => val = ATK_BIAS - 3
            /\ raw = 0 => val = 0
\* the CPU mode register read at start with a reply of 65536-3, decoded to -3
C8_Witness ==
    /\ Main \in Decoded("read_device")
    /\ th[Main].ex.device_id = ATK_CPU_MODE_ID
    /\ th[Main].ex.raw = ATK_BIAS - 3
    /\ th[Main].ex.val = 0 - 3

\* the executors whose command has been handed to the driver
Sent == { e \in Executors : th[e].ex.in_buf # << >> }
Word(buf, i) == Unpack_u32(buf, 4 * i)
WellFormed(e) ==
    LET x == th[e].ex IN
    /\ Len(x.in_buf) = 16
    /\ \A i \in 1..16 : x.in_buf[i] \in 0..255
    /\ Word(x.in_buf, 0) = IF x.fn = "write_device" THEN DEVS ELSE DSTS
    /\ Word(x.in_buf, 1) = 8
    /\ Word(x.in_buf, 2) = x.device_id

\* C9 as stated: every command is four little-endian words, DSTS or DEVS, the
\* length 8, the device, and 0.
C9_AsStated ==
    \A e \in Sent : WellFormed(e) /\ Word(th[e].ex.in_buf, 3) = 0
\* C9, amended: every command is 16 bytes, four little-endian words: DSTS for a
\* read and DEVS for a write, the length 8, the device, and a fourth word that
\* is 0 in a read and the value to write in a write.
C9_CommandLayout ==
    /\ \A e \in Executors : th[e].ex.stage = "close" => e \in Sent
    /\ \A e \in Sent :
         /\ WellFormed(e)
         /\ Word(th[e].ex.in_buf, 3) = IF th[e].ex.fn = "write_device" THEN th[e].ex.value ELSE 0
\* the write of Turbo: the command carries the CPU mode register and the value 1
C9_Witness ==
    \E c \in Clients :
        /\ c \in Sent
        /\ th[c].ex.fn = "write_device"
        /\ th[c].ex.in_buf = PackU32(DEVS) \o << 8, 0, 0, 0 >> \o PackU32(ATK_CPU_MODE_ID)
                                \o << 1, 0, 0, 0 >>
        /\ th[c].key = s_turbo

Abs(n) == IF n < 0 THEN 0 - n ELSE n
\* percent is rpm / 6600 * 100 to the nearest tenth
NearestTenth(rpm, percent) ==
    /\ percent.t = "float"
    /\ 2 * Abs(percent.tenths * FAN_MAX_RPM - rpm.n * 1000) <= FAN_MAX_RPM
PercentOfRpm(rpm, percent) ==
    /\ IsNone(percent) <=> IsNone(rpm)
    /\ ~IsNone(rpm) => NearestTenth(rpm, percent)
    /\ rpm = IntV(3300) => percent = FloatV(500)
    /\ rpm = IntV(0) => percent = FloatV(0)
\* the requests whose thermal block is built
WithThermal == { c \in Clients : "thermal" \in DOMAIN th[c].resp }

\* C10: in every thermal block, for the CPU fan and for the GPU fan, the
\* percentage is absent exactly when the RPM is, and is otherwise
\* rpm / 6600 * 100 to the nearest tenth, 50.0 for 3300 RPM; the conversion
\* gives 0.0 for 0 RPM, a count the fan read itself never returns.
C10_FanPercent ==
    /\ \A c \in WithThermal :
         /\ PercentOfRpm(th[c].resp.thermal.cpu_fan_rpm, th[c].resp.thermal.cpu_fan_percent)
         /\ PercentOfRpm(th[c].resp.thermal.gpu_fan_rpm, th[c].resp.thermal.gpu_fan_percent)
    /\ PercentOfRpm(IntV(0), fan_percent(IntV(0)))
\* a reply with the CPU fan at 3300 RPM and 50.0 percent, the GPU fan absent
C10_Witness ==
    \E c \in Replied :
        /\ c \in WithThermal
        /\ th[c].resp.thermal.cpu_fan_rpm = IntV(3300)
        /\ th[c].resp.thermal.cpu_fan_percent = FloatV(500)
        /\ th[c].resp.thermal.gpu_fan_rpm = None
        /\ th[c].resp.thermal.gpu_fan_percent = None

(***************************************************************************)
(* Telemetry: the thermal block of GET /api/stats                          *)
(***************************************************************************)
\* the thermal block of a reply, and the machine kinds
Thermal(c) == th[c].resp.thermal
OnDriverPlatform == sens.os_name = "nt"
\* what each backend reports on this machine
LhmGpuCore == lhm_gpu_sensors(sens.lhm)[1]
NvmlTemp == gpu_stats_nvidia(sens.nvml)[1]

\* C11: on Windows the GPU core temperature of every thermal block is the
\* LibreHardwareMonitor value whenever there is one, whatever NVML reports;
\* the NVML temperature appears only when LibreHardwareMonitor has none; the
\* two are never combined.
C11_GpuCorePrecedence ==
    \A c \in WithThermal :
        OnDriverPlatform =>
            Thermal(c).gpu_core_temp_celsius =
                IF ~IsNone(LhmGpuCore) THEN LhmGpuCore ELSE NvmlTemp
\* a reply on a machine where both backends report, 48.5 and 55.0 degrees, and
\* the block carries 48.5
C11_Witness ==
    \E c \in Replied :
        /\ c \in WithThermal
        /\ OnDriverPlatform
        /\ LhmGpuCore = FloatV(485)
        /\ NvmlTemp = FloatV(550)
        /\ Thermal(c).gpu_core_temp_celsius = FloatV(485)

\* the nine fields of ThermalStats (lines 351-360)
ThermalFields ==
    { "cpu_package_temp_celsius", "cpu_core_avg_celsius", "cpu_core_max_celsius",
      "cpu_fan_rpm", "cpu_fan_percent", "gpu_core_temp_celsius",
      "gpu_hotspot_celsius", "gpu_fan_rpm", "gpu_fan_percent" }
\* the temperatures of a block are the ones the backends of this machine report
TempsFromBackends(t) ==
    /\ t.cpu_package_temp_celsius = lhm_cpu_sensors(sens.lhm)[1]
    /\ t.cpu_core_avg_celsius = lhm_cpu_sensors(sens.lhm)[2]
    /\ t.cpu_core_max_celsius = lhm_cpu_sensors(sens.lhm)[3]
    /\ t.gpu_core_temp_celsius = IF ~IsNone(LhmGpuCore) THEN LhmGpuCore ELSE NvmlTemp
    /\ t.gpu_hotspot_celsius = lhm_gpu_sensors(sens.lhm)[2]
\* the handler built its thermal block without ever getting a handle
NoChannel(c) == c \in WithThermal /\ OnDriverPlatform /\ th[c].ioctls = 0

\* C12: on Windows, while the fans are read the device is opened once for the
\* CPU fan and then once for the GPU fan, also when an open fails; when no open
\* succeeded the handler still replies 200 with a thermal block of all nine
\* fields, the two fan speeds and the two percentages None and every
\* temperature as its backend reported it.
C12_NoChannel ==
    \A c \in Clients :
        /\ th[c].pc = "atk_fan_speeds_cpu" =>
              /\ th[c].ex.device_id = ATK_CPU_FAN_ID
              /\ th[c].opens = IF th[c].ex.stage = "open" THEN 0 ELSE 1
        /\ th[c].pc = "atk_fan_speeds_gpu" =>
              /\ th[c].ex.device_id = ATK_GPU_FAN_ID
              /\ th[c].opens = IF th[c].ex.stage = "open" THEN 1 ELSE 2
        /\ NoChannel(c) =>
              /\ th[c].opens = 2
              /\ th[c].pc = "returned" /\ th[c].resp.status = 200
              /\ DOMAIN Thermal(c) = ThermalFields
              /\ Thermal(c).cpu_fan_rpm = None /\ Thermal(c).cpu_fan_percent = None
              /\ Thermal(c).gpu_fan_rpm = None /\ Thermal(c).gpu_fan_percent = None
              /\ TempsFromBackends(Thermal(c))
\* a reply built without a handle on a machine whose backends report a CPU
\* package temperature of 61.8 and a GPU hot spot of 59.0 degrees
C12_Witness ==
    \E c \in Replied :
        /\ NoChannel(c)
        /\ Thermal(c).cpu_fan_rpm = None
        /\ Thermal(c).cpu_package_temp_celsius = FloatV(618)
        /\ Thermal(c).gpu_hotspot_celsius = FloatV(590)

(***************************************************************************)
(* Start of the process: _load_mode_cache                                  *)
(***************************************************************************)
\* the mode names of the CPU mode register, by decoded value
ModeOfRegister(val) ==
    CASE val = 0 -> StrV(s_Balanced)
      [] val = 1 -> StrV(s_Turbo)
      [] val = 2 -> StrV(s_Silent)
      [] val = 3 -> StrV(s_Performance)
      [] val = 4 -> StrV(s_Manual)
      [] OTHER -> None
\* the step that ends the import of the module
Started == phase = "down" /\ phase' = "up"

\* C13: when the import ends and the file could not be loaded (missing, not
\* JSON, or JSON that is not an object), the process has made exactly one
\* exchange, a read of the CPU mode register, the CPU mode in memory is the
\* table entry of the decoded value, or None when the read failed or the value
\* is negative or not in the table, and the GPU mode in memory is None.
C13_FallbackReadsCpuOnce ==
    [][ (Started /\ load_mode_cache_raises(file)) =>
            LET x == th[Main].ex IN
            /\ x.fn = "read_device" /\ x.device_id = ATK_CPU_MODE_ID
            /\ th[Main].opens = 1 /\ th[Main].ioctls <= 1 /\ th[Main].writes = 0
            /\ \A c \in Clients : th[c].opens = 0
            /\ cached_cpu_mode' = IF ~x.ok \/ x.val < 0 THEN None ELSE ModeOfRegister(x.val)
            /\ cached_gpu_mode' = None ]_vars
\* the import ends with a file that is not JSON and a register value of 4: the
\* memory holds Manual and no GPU mode
C13_Witness ==
    /\ phase = "up"
    /\ file = FileGarbage
    /\ th[Main].opens = 1
    /\ th[Main].ioctls = 1
    /\ cached_cpu_mode = StrV(s_Manual)
    /\ cached_gpu_mode = None
    /\ \A c \in Clients : th[c].pc = "pending" /\ th[c].opens = 0

(***************************************************************************)
(* Detection of the GPU mode                                               *)
(***************************************************************************)
\* C14: _get_gpu_mode without a cached mode reads the eco register and then
\* the mux register and returns Ultimate when the mux read gave 0, whatever
\* the eco read gave; otherwise Eco when the eco read gave 1; otherwise None
\* when both reads gave None, and Standard in every other case: one failed
\* read, or a negative value, counts as a flag that is not set.
C14_GpuModePrecedence ==
    [][ \A c \in Clients :
          /\ (th[c].pc = "get_gpu_mode_eco" /\ th'[c].pc = "get_gpu_mode_mux") =>
                /\ th[c].ex.device_id = ATK_GPU_ECO_ID
                /\ th'[c].eco = th[c].ex.ret
                /\ th'[c].ex.device_id = ATK_GPU_MUX_ID
          /\ (th[c].pc = "get_gpu_mode_mux" /\ th'[c].pc = "returned") =>
                LET eco == th[c].eco
                    mux == th[c].ex.ret
                IN  th'[c].resp.modes.gpu_mode =
                        IF mux = IntV(0) THEN StrV(s_Ultimate)
                        ELSE IF eco = IntV(1) THEN StrV(s_Eco)
                        ELSE IF eco = None /\ mux = None THEN None
                        ELSE StrV(s_Standard) ]_vars
\* the eco read gave 1 and the mux read is back with 0: the reply will say
\* Ultimate
C14_Witness ==
    \E c \in Clients :
        /\ Returned(c, "get_gpu_mode_mux")
        /\ th[c].eco = IntV(1)
        /\ th[c].ex.ret = IntV(0)
        /\ cached_gpu_mode = None

(***************************************************************************)
(* _get_cpu_mode and _get_gpu_mode as reads                                *)
(***************************************************************************)
\* the step of a handler that calls _get_cpu_mode() and _get_gpu_mode()
CallsGetModes(c) ==
    \/ th[c].pc = "set_modes_finish" /\ th[c].errors = <<>> /\ th'[c].pc # "set_modes_finish"
    \/ th[c].pc = "atk_fan_speeds_gpu" /\ th'[c].pc # "atk_fan_speeds_gpu"
\* the step with which a handler starts to detect the GPU mode
StartsDetection(c) == th[c].pc # "get_gpu_mode_eco" /\ th'[c].pc = "get_gpu_mode_eco"
Detecting(c) == th[c].pc \in {"get_gpu_mode_eco", "get_gpu_mode_mux"}
\* a reply whose GPU mode was detected in this process and is not in memory
DetectedReply(c) ==
    /\ HasModes(c)
    /\ th[c].resp.modes.gpu_mode # None
    /\ cached_gpu_mode = None

\* C15 as stated: the calls are reads of the memory, _get_cpu_mode makes no
\* exchange, and once a call of _get_gpu_mode has detected a mode no later call
\* starts a detection before a GPU mode is set.
C15_AsStated ==
    [][ \A c \in Clients :
          /\ CallsGetModes(c) => th'[c].opens = th[c].opens
          /\ hist.detected => ~StartsDetection(c) ]_vars
\* C15: _get_cpu_mode makes no exchange and returns the CPU mode in memory;
\* _get_gpu_mode returns the GPU mode in memory without an exchange when there
\* is one, and otherwise starts a detection, on every call; a detection reads
\* the eco and the mux register and leaves the memory and the file as they are.
C15_ModeReads ==
    [][ \A c \in Clients :
          /\ (CallsGetModes(c) /\ cached_gpu_mode # None) =>
                /\ th'[c].pc = "returned"
                /\ th'[c].resp.modes = [cpu_mode |-> cached_cpu_mode,
                                        gpu_mode |-> cached_gpu_mode]
                /\ th'[c].opens = th[c].opens /\ th'[c].ioctls = th[c].ioctls
          /\ (CallsGetModes(c) /\ cached_gpu_mode = None) =>
                /\ StartsDetection(c)
                /\ th'[c].resp.cpu_mode = cached_cpu_mode
                /\ th'[c].opens = th[c].opens /\ th'[c].ioctls = th[c].ioctls
          /\ (Detecting(c) /\ th'[c] # th[c]) =>
                /\ UNCHANGED << cached_cpu_mode, cached_gpu_mode, file >>
                /\ th'[c].pc = "returned" => th'[c].resp.modes.cpu_mode = th[c].resp.cpu_mode ]_vars
\* an earlier call has detected a mode, no GPU mode was set since, and a
\* later call has read both registers again, the mux register as 0
C15_Witness ==
    \E c \in Clients :
        /\ hist.detected
        /\ cached_gpu_mode = None
        /\ Returned(c, "get_gpu_mode_mux")
        /\ th[c].ex.ret = IntV(0)
        /\ th[c].ioctls >= 2

(***************************************************************************)
(* The values the memory can hold                                          *)
(***************************************************************************)
\* C16 as stated: the CPU mode in memory is always None or one of Silent,
\* Balanced, Turbo, Performance, Manual, and the GPU mode in memory is always
\* None or one of Eco, Standard, Ultimate, whatever the file held at the start
\* and whatever was written since.
C16_AsStated ==
    /\ cached_cpu_mode \in {None} \cup { StrV(m) : m \in CpuModes }
    /\ cached_gpu_mode \in {None} \cup { StrV(m) : m \in GpuModes }

\* the process has started from a file that holds a JSON object with other
\* strings: the memory holds 'invalid' and 'bogus' and a reply reports them
C16_Witness ==
    \E c \in Replied :
        /\ HasModes(c)
        /\ file = FileForeign
        /\ cached_cpu_mode = StrV(s_invalid)
        /\ th[c].resp.modes = [cpu_mode |-> StrV(s_invalid), gpu_mode |-> StrV(s_bogus)]

(***************************************************************************)
(* Telemetry where os.name is not "nt"                                     *)
(***************************************************************************)
\* C17: where os.name is not "nt" every thermal block has no core average, no
\* core maximum, no GPU hot spot and no GPU fan RPM, whatever psutil and NVML
\* report, and no executor ever opens the device or makes a transfer.
C17_NoDriverFields ==
    ~OnDriverPlatform =>
        /\ \A c \in WithThermal :
              /\ Thermal(c).cpu_core_avg_celsius = None
              /\ Thermal(c).cpu_core_max_celsius = None
              /\ Thermal(c).gpu_hotspot_celsius = None
              /\ Thermal(c).gpu_fan_rpm = None
        /\ handles = {}
        /\ \A e \in Executors :
              th[e].opens = 0 /\ th[e].ioctls = 0 /\ th[e].ex = NoExchange
\* a reply on such a machine where psutil gives a CPU temperature and a fan
\* speed and NVML gives 55.0 degrees and a fan at 40 percent
C17_Witness ==
    \E c \in Replied :
        /\ ~OnDriverPlatform
        /\ c \in WithThermal
        /\ Thermal(c).cpu_package_temp_celsius # None
        /\ Thermal(c).cpu_fan_rpm # None
        /\ Thermal(c).gpu_core_temp_celsius = FloatV(550)
        /\ Thermal(c).gpu_fan_percent = FloatV(400)
        /\ Thermal(c).gpu_fan_rpm = None
        /\ Thermal(c).gpu_hotspot_celsius = None

(***************************************************************************)
(* The fans on Windows                                                     *)
(***************************************************************************)
\* the same computer with its fan and control sensors removed, or reading
\* something else
FanVariants(computer) ==
    IF computer = None THEN { None }
    ELSE { [computer EXCEPT !.hardware = [i \in DOMAIN @ |-> WithoutFans(@[i])]],
           [computer EXCEPT !.hardware = [i \in DOMAIN @ |-> OtherFans(@[i])]] }
\* the thermal block for a computer, the two driver reads and NVML
BlockFor(computer, cpu_rpm, gpu_rpm, nvml) ==
    [cpu_package_temp_celsius |-> lhm_cpu_sensors(computer)[1],
     cpu_core_avg_celsius |-> lhm_cpu_sensors(computer)[2],
     cpu_core_max_celsius |-> lhm_cpu_sensors(computer)[3],
     cpu_fan_rpm |-> cpu_rpm,
     cpu_fan_percent |-> fan_percent(cpu_rpm),
     gpu_core_temp_celsius |-> IF lhm_gpu_sensors(computer)[1] # None
                               THEN lhm_gpu_sensors(computer)[1]
                               ELSE gpu_stats_nvidia(nvml)[1],
     gpu_hotspot_celsius |-> lhm_gpu_sensors(computer)[2],
     gpu_fan_rpm |-> gpu_rpm,
     gpu_fan_percent |-> fan_percent(gpu_rpm)]
\* the machine's LibreHardwareMonitor has a CPU fan and a GPU fan reading
LhmHasFans == lhm_cpu_sensors(sens.lhm)[4] # None /\ lhm_gpu_sensors(sens.lhm)[3] # None

\* C18: on Windows the CPU fan speed of a thermal block is what the driver
\* returned for the CPU fan ID and the GPU fan speed what it returned for the
\* GPU fan ID, and the block is the one the same reads give on a computer whose
\* LibreHardwareMonitor fan and control sensors are absent or read otherwise.
C18_FansFromDriver ==
    [][ \A c \in Clients :
          /\ (th[c].pc = "atk_fan_speeds_cpu" /\ th'[c].pc = "atk_fan_speeds_gpu") =>
                /\ th[c].ex.fn = "read_fan" /\ th[c].ex.device_id = ATK_CPU_FAN_ID
                /\ th'[c].rpm[1] = th[c].ex.ret
          /\ (th[c].pc = "atk_fan_speeds_gpu" /\ th'[c].pc # "atk_fan_speeds_gpu") =>
                /\ th[c].ex.fn = "read_fan" /\ th[c].ex.device_id = ATK_GPU_FAN_ID
                /\ th'[c].resp.thermal.cpu_fan_rpm = th[c].rpm[1]
                /\ th'[c].resp.thermal.gpu_fan_rpm = th[c].ex.ret
                /\ \A other \in FanVariants(sens.lhm) :
                      th'[c].resp.thermal =
                          BlockFor(other, th[c].rpm[1], th[c].ex.ret, sens.nvml) ]_vars
\* a reply on a machine whose LibreHardwareMonitor has fan readings: the block
\* has the driver's 3300 RPM for the CPU fan and no GPU fan speed
C18_Witness ==
    \E c \in Replied :
        /\ OnDriverPlatform
        /\ c \in WithThermal
        /\ LhmHasFans
        /\ Thermal(c).cpu_fan_rpm = IntV(3300)
        /\ Thermal(c).gpu_fan_rpm = None

(***************************************************************************)
(* The GPU node the LibreHardwareMonitor readers use                       *)
(***************************************************************************)
\* the first reading of a kind on a node, rounded, None when it has none
FirstReading(hw, stype, snames) ==
    LET hits == SelectSeq(hw.sensors,
                          LAMBDA s : s.stype = stype /\ s.val # None
                                     /\ (snames = {} \/ s.sname \in snames))
    IN  IF hits = << >> THEN None ELSE round1(hits[1].val)
\* the four GPU readings taken from the first GPU node alone: all None without
\* a computer, without a GPU node, or when reading that node raises
FirstGpuOnly(computer) ==
    IF computer = None THEN NoReadings
    ELSE LET h == computer.hardware
             gpus == { i \in DOMAIN h : h[i].htype \in GpuTypes }
         IN  IF gpus = {} THEN NoReadings
             ELSE LET hw == h[CHOOSE i \in gpus : \A j \in gpus : i <= j]
                  IN  IF hw.fault # "none"
                         \/ \E k \in DOMAIN hw.sensors : hw.sensors[k].val = BadValue
                      THEN NoReadings
                      ELSE << FirstReading(hw, "Temperature", {"GPU Core"}),
                              FirstReading(hw, "Temperature", {"GPU Hot Spot"}),
                              FirstReading(hw, "Fan", {}),
                              FirstReading(hw, "Control", {}) >>
\* the GPU readings of the payload lhm_probe.py printed
ProbeGpu ==
    << probe_out.gpu_core_temp_celsius, probe_out.gpu_hotspot_celsius,
       probe_out.gpu_fan_rpm, probe_out.gpu_fan_percent >>
\* a handler holds the temperatures _get_thermal_stats read
ReadingFans(c) == th[c].pc \in {"atk_fan_speeds_cpu", "atk_fan_speeds_gpu"}

\* the server's reader uses the first GPU node alone
ServerFirstGpuOnly ==
    /\ lhm_gpu_sensors(sens.lhm) = FirstGpuOnly(sens.lhm)
    /\ \A c \in Clients :
          ReadingFans(c) =>
              << th[c].temps[4], th[c].temps[5] >>
                  = << FirstGpuOnly(sens.lhm)[1], FirstGpuOnly(sens.lhm)[2] >>
\* the payload of the probe has the GPU readings of the first GPU node alone
ProbeFirstGpuOnly == probe_out # NotRun => ProbeGpu = FirstGpuOnly(sens.lhm)

\* C19 as stated: the GPU readings of the server's reader and of the probe are
\* those of the first GPU node alone; what that node lacks is None even when a
\* later GPU node has it.
C19_AsStated == ServerFirstGpuOnly /\ ProbeFirstGpuOnly
\* the probe has run on a machine whose first GPU node has a hot spot reading
\* only: it printed the core temperature, fan speed and fan percentage of the
\* second GPU node, which the server's reader leaves None
C19_Witness ==
    /\ probe_out # NotRun
    /\ FirstGpuOnly(sens.lhm) = << None, FloatV(500), None, None >>
    /\ lhm_gpu_sensors(sens.lhm) = << None, FloatV(500), None, None >>
    /\ ProbeGpu = << FloatV(485), FloatV(500), FloatV(18000), FloatV(350) >>

(***************************************************************************)
(* NVML                                                                    *)
(***************************************************************************)
\* NVML is loaded and the handle and temperature calls return
NvmlTempSucceeds ==
    /\ sens.nvml.available
    /\ sens.nvml.handle.t = "returns"
    /\ sens.nvml.temp.t = "returns"
\* a block whose GPU core temperature is the result of _gpu_stats_nvidia
NvmlReply(c) ==
    /\ c \in WithThermal
    /\ ~OnDriverPlatform \/ LhmGpuCore = None

\* C20 as stated: when the NVML temperature call succeeds, the temperature of
\* _gpu_stats_nvidia is that value however the fan speed call fails, and a
\* failing fan speed call makes only the fan percentage None.
C20_AsStated ==
    NvmlTempSucceeds =>
        \A c \in Clients :
            NvmlReply(c) =>
                /\ Thermal(c).gpu_core_temp_celsius = FloatV(10 * sens.nvml.temp.n)
                /\ (~OnDriverPlatform /\ sens.nvml.fan.t # "returns") =>
                       Thermal(c).gpu_fan_percent = None
\* a reply where the temperature call returned 55 and the fan speed call
\* raised an exception that is not an NVMLError: the block has no GPU
\* temperature
C20_Witness ==
    \E c \in Replied :
        /\ NvmlTempSucceeds
        /\ sens.nvml.temp = Returns(55)
        /\ sens.nvml.fan = RaisesOther
        /\ NvmlReply(c)
        /\ Thermal(c).gpu_core_temp_celsius = None
\* with a fan speed call that raises NVMLError the temperature is kept
NvmlErrorKeepsTemp ==
    (NvmlTempSucceeds /\ sens.nvml.fan = RaisesNVMLError) =>
        /\ gpu_stats_nvidia(sens.nvml) = << FloatV(10 * sens.nvml.temp.n), None >>
        /\ \A c \in Clients :
              NvmlReply(c) =>
                  Thermal(c).gpu_core_temp_celsius = FloatV(10 * sens.nvml.temp.n)

(***************************************************************************)
(* Exceptions in the LibreHardwareMonitor readers                          *)
(***************************************************************************)
\* the traversal of a node raises: at Update(), Sensors or SubHardware, or at
\* the conversion of the value of a temperature sensor the reader looks at
NodeRaises(hw, snames) ==
    \/ hw.fault # "none"
    \/ \E k \in DOMAIN hw.sensors :
          /\ hw.sensors[k].val = BadValue
          /\ hw.sensors[k].stype = "Temperature"
          /\ hw.sensors[k].sname \in snames
\* _lhm_cpu_sensors meets an exception on this machine: on some Cpu node
CpuReadRaises ==
    /\ sens.lhm # None
    /\ \E i \in DOMAIN sens.lhm.hardware :
          /\ sens.lhm.hardware[i].htype = "Cpu"
          /\ NodeRaises(sens.lhm.hardware[i], {"CPU Package", "Core Average", "Core Max"})
\* _lhm_gpu_sensors meets an exception on this machine: on the first GPU node
GpuReadRaises ==
    /\ sens.lhm # None
    /\ \E i \in DOMAIN sens.lhm.hardware :
          /\ sens.lhm.hardware[i].htype \in GpuTypes
          /\ \A j \in 1..(i - 1) : sens.lhm.hardware[j].htype \notin GpuTypes
          /\ NodeRaises(sens.lhm.hardware[i], {"GPU Core", "GPU Hot Spot"})

\* C21: when the traversal of _lhm_cpu_sensors raises anywhere (Update(),
\* Sensors, a value conversion, SubHardware), the call returns four None, also
\* for what it had read before, and likewise _lhm_gpu_sensors; the handler goes
\* on to the fan reads with no temperature from that reader and replies 200.
C21_TraversalFailureGivesNone ==
    /\ CpuReadRaises => lhm_cpu_sensors(sens.lhm) = NoReadings
    /\ GpuReadRaises => lhm_gpu_sensors(sens.lhm) = NoReadings
    /\ \A c \in Clients :
          /\ (OnDriverPlatform /\ ReadingFans(c) /\ CpuReadRaises) =>
                << th[c].temps[1], th[c].temps[2], th[c].temps[3] >> = << None, None, None >>
          /\ (OnDriverPlatform /\ ReadingFans(c) /\ GpuReadRaises) =>
                << th[c].temps[4], th[c].temps[5] >> = << None, None >>
          /\ (OnDriverPlatform /\ c \in WithThermal /\ c \in Replied /\ CpuReadRaises) =>
                /\ th[c].resp.status = 200
                /\ Thermal(c).cpu_package_temp_celsius = None
                /\ Thermal(c).cpu_core_avg_celsius = None
                /\ Thermal(c).cpu_core_max_celsius = None
          /\ (OnDriverPlatform /\ c \in WithThermal /\ c \in Replied /\ GpuReadRaises) =>
                /\ th[c].resp.status = 200
                /\ Thermal(c).gpu_hotspot_celsius = None
                /\ Thermal(c).gpu_core_temp_celsius = NvmlTemp
\* a reply on the machine whose Cpu node raises at SubHardware, after a
\* package temperature of 61.8 was read, and whose GPU node raises at the hot
\* spot value, after a core temperature of 48.5 was read: none of the two is
\* in the block
C21_Witness ==
    \E c \in Replied :
        /\ c \in WithThermal
        /\ sens.lhm = [t |-> "computer", hardware |-> << CpuNodeSubFault, GpuNodeBadValue >>]
        /\ CpuNodeSubFault.sensors[2] = Sensor("Temperature", "CPU Package", IntV(6180))
        /\ GpuNodeBadValue.sensors[1] = Sensor("Temperature", "GPU Core", IntV(4850))
        /\ Thermal(c).cpu_package_temp_celsius = None
        /\ Thermal(c).gpu_core_temp_celsius = NvmlTemp
        /\ NvmlTemp = None
        /\ th[c].resp.status = 200

(***************************************************************************)
(* The CPU temperature of psutil                                           *)
(***************************************************************************)
\* the sensor groups of this machine, in the order of the dict
TempGroups == IF sens.temps = PsutilRaises THEN << >> ELSE sens.temps.groups
\* the readings of the group the reader selects: those of the first name of
\* coretemp, k10temp, cpu_thermal, acpitz that the dict has, else those of the
\* first group of the dict
SelectedReadings ==
    LET order == << "coretemp", "k10temp", "cpu_thermal", "acpitz" >>
        has(n) == \E i \in DOMAIN TempGroups : TempGroups[i].name = n
        named(n) == TempGroups[CHOOSE i \in DOMAIN TempGroups : TempGroups[i].name = n]
    IN  IF \E k \in 1..4 : has(order[k])
        THEN named(order[CHOOSE k \in 1..4 : has(order[k]) /\ \A j \in 1..(k - 1) : ~has(order[j])])
                 .readings
        ELSE TempGroups[1].readings
FromPreferred ==
    \E i \in DOMAIN TempGroups : TempGroups[i].name \in {"coretemp", "k10temp", "cpu_thermal", "acpitz"}
\* v is the float nearest to num / den hundredths of a degree, in tenths
TenthOf(v, num, den) == v.t = "float" /\ 2 * Abs(v.tenths * 10 * den - num) <= 10 * den

\* C22: where os.name is not "nt", the CPU package temperature of every block
\* is None when psutil raises or has no sensor group or the selected group has
\* no reading; otherwise it is the average of the readings of the first of
\* coretemp, k10temp, cpu_thermal, acpitz that is present, to one decimal, or,
\* when none of them is present, the first reading of the first group; the
\* handler replies 200 in every case.
C22_CpuTempLinux ==
    \A c \in WithThermal :
        ~OnDriverPlatform =>
            LET v == Thermal(c).cpu_package_temp_celsius IN
            /\ th[c].resp.status = 200
            /\ IF TempGroups = << >> THEN v = None
               ELSE IF SelectedReadings = << >> THEN v = None
               ELSE IF FromPreferred
               THEN TenthOf(v, SumOf(SelectedReadings), Len(SelectedReadings))
               ELSE TenthOf(v, SelectedReadings[1], 1)
\* a reply where the dict has acpitz (41.0) before coretemp (50.0, 52.5,
\* 61.0): the block has 54.5
C22_Witness ==
    \E c \in Replied :
        /\ ~OnDriverPlatform
        /\ c \in WithThermal
        /\ TempGroups = << Group("acpitz", << 4100 >>),
                           Group("coretemp", << 5000, 5250, 6100 >>) >>
        /\ Thermal(c).cpu_package_temp_celsius = FloatV(545)

(***************************************************************************)
(* The two decoders on the same reply                                      *)
(***************************************************************************)
\* the exchanges that have decoded a reply, on either read path
DecodedReads == Decoded("read_fan") \cup Decoded("read_device")
\* what the path of an exchange makes of a raw value
OwnDecoder(e, raw) ==
    IF th[e].ex.fn = "read_fan" THEN atk_read_fan_val(raw) ELSE atk_read_device_val(raw)

\* C23 as stated: for every reply, the fan read and the register read obtain
\* the same integer, raw - 65536 with 65536 added back when that is negative.
C23_AsStated ==
    \A e \in DecodedReads :
        LET raw == th[e].ex.raw
            wrapped == IF raw - ATK_BIAS < 0 THEN raw ELSE raw - ATK_BIAS
        IN  /\ th[e].ex.val = wrapped
            /\ atk_read_fan_val(raw) = atk_read_device_val(raw)
\* C23: for every reply an exchange decodes, its value is what the decoder of
\* its path gives; the register read gives raw - 65536 and never adds 65536
\* back, the fan read gives the same for raw >= 65536 and raw itself below, so
\* the two agree on a reply exactly when raw >= 65536 and differ by 65536
\* otherwise.
C23_DecodersAgreeAboveBias ==
    \A e \in DecodedReads :
        LET raw == th[e].ex.raw
            fan == atk_read_fan_val(raw)
            reg == atk_read_device_val(raw)
        IN  /\ th[e].ex.val = OwnDecoder(e, raw)
            /\ reg = raw - ATK_BIAS
            /\ fan = IF raw >= ATK_BIAS THEN reg ELSE reg + ATK_BIAS
            /\ (fan = reg) <=> (raw >= ATK_BIAS)
\* a register read has decoded an empty reply (raw 0) to -65536, which the fan
\* read decodes to 0
C23_Witness ==
    \E e \in Decoded("read_device") :
        /\ th[e].ex.raw = 0
        /\ th[e].ex.val = 0 - ATK_BIAS
        /\ atk_read_fan_val(th[e].ex.raw) = 0

(***************************************************************************)
(* C24: a POST /modes request with both parts that ends in an error.       *)
(***************************************************************************)
\* a request that carries both cpu_mode and gpu_mode
BothParts(c) ==
    /\ th[c].req.kind = "modes"
    /\ th[c].req.cpu_mode # Absent
    /\ th[c].req.gpu_mode # Absent
\* set_modes has recorded an error: line 729 will answer with status 400
Doomed(c) == BothParts(c) /\ th[c].errors # <<>>
\* the part of the request the error list does not mention has been applied
GpuPartApplied(c) ==
    /\ \A i \in DOMAIN th[c].resp.errors :
         th[c].resp.errors[i].text \in {"Invalid cpu_mode", "Failed to set CPU mode"}
    /\ cached_gpu_mode = StrV(DictGet(GPU_MODE_NAMES, lower(th[c].req.gpu_mode), th[c].req.gpu_mode))

\* C24: a POST /modes request that carries both cpu_mode and gpu_mode and is
\* answered with an error leaves the cached modes and the persisted record as
\* they were: once the request has an error on its list, no step of it changes
\* _cached_cpu_mode, _cached_gpu_mode or mode_cache.json, and the driver accepts
\* none of its write transfers
C24_AsStated ==
    [][\A c \in Clients :
         Doomed(c) =>
           /\ cached_cpu_mode' = cached_cpu_mode
           /\ cached_gpu_mode' = cached_gpu_mode
           /\ file' = file
           /\ th'[c].writes > th[c].writes => ~th'[c].ex.ok]_vars

\* a request with a CPU name set_modes rejects and the GPU name "eco" is answered
\* with status 400 after its GPU part was written, cached and saved
C24_Witness ==
    \E c \in Replied :
      /\ BothParts(c)
      /\ th[c].resp.status = 400
      /\ GpuPartApplied(c)
      /\ hist.want_gpu = StrV(s_Eco)
      /\ hist.written
      /\ th[c].writes = 1

(***************************************************************************)
(* C25: the cached CPU mode and the value the driver accepted last.        *)
(***************************************************************************)
\* the executors inside _set_cpu_mode: from its call to its assignment of
\* _cached_cpu_mode or its return with False
CpuWriters == { c \in Clients : th[c].pc \in {"set_cpu_mode", "set_cpu_mode_write"} }
\* the exchange of e is a write to the CPU-mode register that the driver accepted
CpuWriteAccepted(e) ==
    /\ th[e].ex.fn = "write_device"
    /\ th[e].ex.device_id = ATK_CPU_MODE_ID
    /\ th[e].ex.stage \in {"close", "done"}
    /\ th[e].ex.ok

\* C25: at most one call of _set_cpu_mode is in progress at a time (set_modes
\* never awaits); a write transfer to the CPU-mode register the driver has
\* accepted belongs to the call in progress; the step that ends that call stores
\* the mode of the accepted value in _cached_cpu_mode, and while the process
\* runs no other step changes _cached_cpu_mode; so whenever no call is in
\* progress the cache is the mode of the value the driver accepted last
C25_CacheIsLastAccepted ==
    [][/\ (Cardinality(CpuWriters) <= 1)'
       /\ (\A e \in Executors : CpuWriteAccepted(e) => e \in CpuWriters)'
       /\ \A c \in Clients :
            (c \in CpuWriters /\ CpuWriteAccepted(c) /\ c \notin CpuWriters') =>
               /\ cached_cpu_mode' = ModeOfRegister(th[c].ex.value)
               /\ hist'.want_cpu = cached_cpu_mode'
       /\ (phase = "up" /\ phase' = "up" /\ cached_cpu_mode' # cached_cpu_mode) =>
             \E c \in CpuWriters : CpuWriteAccepted(c) /\ c \notin CpuWriters'
       /\ (CpuWriters = {} /\ ~IsNone(hist.want_cpu) => cached_cpu_mode = hist.want_cpu)'
      ]_vars

\* the driver accepted the value 2 and the request is answered: the cache says
\* Silent, while the record that could not be rewritten still says Turbo
C25_Witness ==
    /\ CpuWriters = {}
    /\ ~writable
    /\ file = save_mode_cache_text(StrV(s_Turbo), None)
    /\ hist.want_cpu = StrV(s_Silent)
    /\ cached_cpu_mode = ModeOfRegister(2)
    /\ \E c \in Clients : HasModes(c) /\ th[c].req.cpu_mode = s_Silent /\ th[c].writes = 1

(***************************************************************************)
(* C26: the ranges of the fan speeds and fan percentages of a reply.       *)
(***************************************************************************)
\* a fan speed the fan read can report: None, or a multiple of 100 in 100..10000
FanRpmInRange(rpm) ==
    IsNone(rpm) \/ (rpm.t = "int" /\ rpm.n % 100 = 0 /\ rpm.n >= 100 /\ rpm.n <= 10000)
\* a percentage between 0.0 and 100.0, or None
FanPercentInRange(percent) ==
    IsNone(percent) \/ (percent.t = "float" /\ percent.tenths >= 0 /\ percent.tenths <= 1000)
\* the fan speeds a handler holds and those of the thermal blocks
FanSpeedsInRange ==
    /\ \A c \in Clients : FanRpmInRange(th[c].rpm[1]) /\ FanRpmInRange(th[c].rpm[2])
    /\ \A c \in WithThermal :
         /\ FanRpmInRange(th[c].resp.thermal.cpu_fan_rpm)
         /\ FanRpmInRange(th[c].resp.thermal.gpu_fan_rpm)

\* C26: for every driver reply, a fan speed read through the device protocol is
\* None or a multiple of 100 in [100, 10000], never 0, and every fan percentage
\* of a thermal block lies in [0, 100]
C26_AsStated ==
    /\ FanSpeedsInRange
    /\ \A c \in WithThermal :
         /\ FanPercentInRange(th[c].resp.thermal.cpu_fan_percent)
         /\ FanPercentInRange(th[c].resp.thermal.gpu_fan_percent)

\* the CPU fan register answers with a count of 100: the reply says 10000 RPM
\* and 151.5 percent
C26_Witness ==
    \E c \in Replied :
        /\ c \in WithThermal
        /\ th[c].resp.thermal.cpu_fan_rpm = IntV(10000)
        /\ th[c].resp.thermal.cpu_fan_percent = FloatV(1515)

(***************************************************************************)
(* C27: what the reads leave alone, and the only steps that change it.     *)
(***************************************************************************)
\* the step is one of a read: of GET /stats (get_system_stats with
\* _get_thermal_stats, _get_cpu_mode and _get_gpu_mode), or of the calls of
\* _get_cpu_mode and _get_gpu_mode that end set_modes
ReadStep(c) ==
    /\ th'[c] # th[c]
    /\ \/ th[c].req.kind = "stats"
       \/ th'[c].req.kind = "stats"
       \/ th[c].pc \in {"set_modes_finish", "get_gpu_mode_eco", "get_gpu_mode_mux"}
\* the step is the assignment of _set_cpu_mode or _set_gpu_mode after a write
\* transfer the driver accepted
SetSucceeds(c) ==
    /\ th[c].pc \in {"set_cpu_mode_write", "set_gpu_mode_write"}
    /\ th[c].ex.stage = "done"
    /\ th[c].ex.ok
    /\ th[c].ex.ret = BoolV(TRUE)
\* the step is the _save_mode_cache that follows that assignment
SetSaves(c) == th[c].pc \in {"cpu_save_write", "gpu_save_write"}

\* C27: no step of a read (GET /stats with its sensor and fan reads, _get_cpu_mode,
\* _get_gpu_mode with its detection) changes _cached_cpu_mode, _cached_gpu_mode
\* or mode_cache.json or sends a write transfer to the driver; while the process
\* runs the cached modes change only in the assignment of a _set_cpu_mode or
\* _set_gpu_mode whose write was accepted, the file changes only in the
\* _save_mode_cache that follows it, and write transfers are sent only from
\* inside _set_cpu_mode and _set_gpu_mode
C27_ReadsChangeNothing ==
    [][/\ \A c \in Clients :
            ReadStep(c) =>
              /\ UNCHANGED << cached_cpu_mode, cached_gpu_mode, file >>
              /\ th'[c].writes = th[c].writes
              /\ th'[c].ex.fn # "write_device"
       /\ (phase = "up" /\ phase' = "up" /\ MemoryPair' # MemoryPair) =>
             \E c \in Clients : SetSucceeds(c)
       /\ file' # file => \E c \in Clients : SetSaves(c) /\ hist.written'
       /\ \A e \in Executors :
            th'[e].writes # th[e].writes =>
               (th'[e].writes = 0 \/ th[e].pc \in {"set_cpu_mode_write", "set_gpu_mode_write"})
      ]_vars

\* a GET /stats answered after a successful write of Turbo: it has read the fans
\* and detected the GPU mode with four transfers, none of them a write, and the
\* cached pair and the record still hold Turbo and no GPU mode
C27_Witness ==
    \E c \in Replied :
        /\ th[c].req.kind = "stats"
        /\ th[c].resp.status = 200
        /\ th[c].ioctls = 4
        /\ th[c].writes = 0
        /\ hist.want_cpu = StrV(s_Turbo)
        /\ MemoryPair = << StrV(s_Turbo), None >>
        /\ file = save_mode_cache_text(StrV(s_Turbo), None)

(***************************************************************************)
(* C28: where the CPU mode in memory comes from at process start.          *)
(***************************************************************************)
\* mode_cache.json can be loaded and holds a CPU mode
RecordHoldsCpuMode(f) == ~load_mode_cache_raises(f) /\ ~IsNone(load_mode_cache_pair(f)[1])

\* C28: at every process start the CPU mode in memory is the one of the record
\* when the record holds a CPU mode, and otherwise comes from one read of the
\* CPU-mode register, so that also after a run that saved a record with a GPU
\* mode and no CPU mode the register is read, and the CPU mode in memory is
\* None after the start only when that read has been made and gave no mode
C28_AsStated ==
    [][ Started =>
          /\ RecordHoldsCpuMode(file) =>
                (cached_cpu_mode' = load_mode_cache_pair(file)[1] /\ th'[Main].opens = 0)
          /\ ~RecordHoldsCpuMode(file) =>
                (th'[Main].opens = 1 /\ th'[Main].ioctls <= 1 /\ th'[Main].writes = 0)
          /\ IsNone(cached_cpu_mode') => th'[Main].opens = 1 ]_vars

\* the process has started again after a run in which the CPU mode was None and
\* a write of Eco succeeded: the record holds Eco and no CPU mode, the start has
\* made no transfer and the CPU mode in memory is None
C28_Witness ==
    /\ Restarted
    /\ hist.mem = << None, StrV(s_Eco) >>
    /\ file = save_mode_cache_text(None, StrV(s_Eco))
    /\ th[Main].pc = "imported"
    /\ th[Main].opens = 0
    /\ th[Main].ioctls = 0
    /\ MemoryPair = << None, StrV(s_Eco) >>

====
